---- MODULE Spec2Model ----
(***************************************************************************)
(* AuctionAssistant: the description merger (mergeProductData,             *)
(* validateProductData, validateUserInput) and the confidence scorer       *)
(* (getConfidenceBreakdown), as state machines over bounded inputs.        *)
(*                                                                         *)
(* Representation of the TypeScript values:                                *)
(*   - a free text (productType, description, ...) is a tuple of           *)
(*     one-character strings, so that length, concatenation, lower-casing  *)
(*     and substring search are computed as the code computes them;        *)
(*   - an enum member (ProductCondition, ConfidenceLevel, image quality)   *)
(*     is the TLA+ string of its TypeScript value;                         *)
(*   - an object is a record; an optional property that is undefined is a  *)
(*     field that is missing from the record's DOMAIN;                     *)
(*   - a list is a sequence;                                               *)
(*   - in the input of validateUserInput, which reads brand, model,        *)
(*     productType, description and customTitle only through their         *)
(*     truthiness and their .length, each of these texts is represented    *)
(*     by its length (0 is the empty string).                              *)
(***************************************************************************)
EXTENDS Integers, Sequences, FiniteSets, TLC

VARIABLES
  pc,           \* position of the harness: "input", then the name of the call made
  aiAnalysis,   \* ProductAnalysis handed to mergeProductData / the scorers / the services
  userDetails,  \* UserProvidedDetails handed to mergeProductData
  options,      \* the options object handed to the call
  mergedData,   \* MergedProductData returned by mergeProductData
  details,      \* UserProvidedDetails handed to validateUserInput
  currentYear,  \* new Date().getFullYear() at the time of the call
  validation,   \* {valid, errors} returned by validateUserInput, or
                \* {valid, errors, warnings} returned by validateEnrichedProduct
  breakdown,    \* AttributeConfidence returned by getConfidenceBreakdown
  productCache,   \* ProductEnrichmentService.productCache
  enriched,       \* EnrichedProductAnalysis returned by enrichProductAnalysis
  minConfidenceGiven, \* the argument minConfidence of validateEnrichedProduct, if given
  databaseEntry,  \* ProductDatabaseEntry handed to mergeWithDatabaseEntry
  dbMerged,       \* ProductAnalysis returned by mergeWithDatabaseEntry
  cachedProducts, \* the list returned by getCachedProducts
  calls,          \* the calls made on the enrichment service so far, by name
  post,           \* the locals of the generatePost invocation
  modelCalls,     \* the requests made to the text model so far, with their outcomes
  postResult,     \* PostGenerationResult the generatePost promise resolved to
  imagePaths,     \* the paths handed to analyzeMultipleProducts
  tasks,          \* the analyzeProduct invocations of the batch, one per path
  settledOrder,   \* the indexes of the invocations in the order they settled
  batchResults,   \* the list the analyzeMultipleProducts promise resolved to
  emojiText,      \* the text handed to insertEmojis
  emojiList,      \* the emojis handed to insertEmojis
  emojiStrategy,  \* the strategy handed to insertEmojis, a sequence of zero or one
  emojiResult,    \* the string insertEmojis returned, a sequence of zero or one
  routeRequest,   \* the POST /analyze request as the upload middleware left it
  aiVisionService,\* whether the route module has a vision service (or null)
  tempFiles,      \* the paths of the temporary files on the disk
  routeLocals,    \* the locals of the POST /analyze handler
  routeTrace,     \* what the handler has called so far, in order
  routeResponse   \* the response sent, a sequence of zero or one

mergerVars == <<aiAnalysis, userDetails, options, mergedData>>
enrichmentVars ==
  <<productCache, enriched, minConfidenceGiven, databaseEntry, dbMerged, cachedProducts,
    calls>>
postVars == <<post, modelCalls, postResult>>
batchVars == <<imagePaths, tasks, settledOrder, batchResults>>
emojiVars == <<emojiText, emojiList, emojiStrategy, emojiResult>>
routeVars ==
  <<routeRequest, aiVisionService, tempFiles, routeLocals, routeTrace, routeResponse>>

vars == <<pc, aiAnalysis, userDetails, options, mergedData,
          details, currentYear, validation, breakdown,
          enrichmentVars, postVars, batchVars, emojiVars, routeVars>>

-----------------------------------------------------------------------------
(* JavaScript helpers *)

\* o.k !== undefined
Has(o, k) == k \in DOMAIN o

\* truthiness of an optional text property: defined and not the empty string
TruthyText(o, k) == Has(o, k) /\ o[k] # <<>>

\* truthiness of an optional enum (string) property
TruthyEnum(o, k) == Has(o, k) /\ o[k] # ""

\* an optional property as a sequence of zero or one values, for comparisons
Get(o, k) == IF Has(o, k) THEN <<o[k]>> ELSE <<>>

\* the object without property k
Without(o, k) == [f \in DOMAIN o \ {k} |-> o[f]]

\* { ...a, ...b }
Spread(a, b) == b @@ a

NoObject == <<>>

\* the elements of a sequence
Range(s) == {s[i] : i \in DOMAIN s}

-----------------------------------------------------------------------------
(* enums, src/src/services/productEnrichment.ts:530-548 *)

ProductCondition ==
  {"new", "like_new", "excellent", "good", "fair", "poor", "for_parts", "unknown"}

ConfidenceLevel == {"high", "medium", "low"}

-----------------------------------------------------------------------------
(* texts used by the code and by the inputs *)

\* 'Unknown Product', the productType placeholder of validateProductData
T_UnknownProduct == <<"U", "n", "k", "n", "o", "w", "n", " ", "P", "r", "o", "d", "u", "c", "t">>
\* 'Unknown', the category placeholder of validateProductData
T_Unknown == <<"U", "n", "k", "n", "o", "w", "n">>

\* 'unknown' and 'generic', the marks of a vague productType
T_unknown == <<"u", "n", "k", "n", "o", "w", "n">>
T_generic == <<"g", "e", "n", "e", "r", "i", "c">>

T_iPhone == <<"i", "P", "h", "o", "n", "e">>
T_iPhonePro == <<"i", "P", "h", "o", "n", "e", " ", "P", "r", "o">>
T_Electronics == <<"E", "l", "e", "c", "t", "r", "o", "n", "i", "c", "s">>
T_Phones == <<"P", "h", "o", "n", "e", "s">>
T_Apple == <<"A", "p", "p", "l", "e">>
T_Samsung == <<"S", "a", "m", "s", "u", "n", "g">>
T_Blue == <<"B", "l", "u", "e">>
T_Black == <<"B", "l", "a", "c", "k">>
T_Silver == <<"S", "i", "l", "v", "e", "r">>
T_Glass == <<"G", "l", "a", "s", "s">>
T_Large == <<"L", "a", "r", "g", "e">>
T_Small == <<"S", "m", "a", "l", "l">>
T_Modern == <<"M", "o", "d", "e", "r", "n">>
T_A2482 == <<"A", "2", "4", "8", "2">>
T_Y2021 == <<"2", "0", "2", "1">>
T_Y2019 == <<"2", "0", "1", "9">>
T_200g == <<"2", "0", "0", "g">>
T_AiText == <<"A", "I", " ", "t", "e", "x", "t", ".">>
T_UserText == <<"U", "s", "e", "r", " ", "t", "e", "x", "t", ".">>
T_AiTitle == <<"A", "I", " ", "t", "i", "t", "l", "e">>
T_UserTitle == <<"M", "y", " ", "t", "i", "t", "l", "e">>
T_5G == <<"5", "G">>

-----------------------------------------------------------------------------
(* Description merger, src/unnamed/part_009:540-852 *)

\* const { prioritizeUser = true, ... } = options: a missing option is true
OptionOrDefault(opts, k) == IF Has(opts, k) THEN opts[k] ELSE TRUE

\* MergeProductType with the provenance 'user' given without looking at prioritizeUser
MergeProductType_UserWithoutPriority(ai, user, prioritizeUser) ==
  [ productType |->
      IF prioritizeUser /\ TruthyText(user, "productType")
        THEN user.productType
        ELSE ai.productType,
    source |-> IF TruthyText(user, "productType") THEN "user" ELSE "ai" ]

\* "Merge product type"
MergeProductType(ai, user, prioritizeUser) ==
  [ productType |->
      IF prioritizeUser /\ TruthyText(user, "productType")
        THEN user.productType
        ELSE ai.productType,
    source |->
      IF TruthyText(user, "productType")
        THEN (IF prioritizeUser THEN "user" ELSE "merged")
        ELSE "ai" ]

\* the brand record built from a user-supplied brand name
UserBrand(user) == [name |-> user.brand, confidence |-> "high", verified |-> TRUE]

\* MergeBrand keeping the AI's confidence and verification for a user brand
MergeBrand_KeepsAiConfidence(ai, user, prioritizeUser) ==
  LET b == IF Has(ai, "brand")
             THEN [ai.brand EXCEPT !.name = user.brand]
             ELSE UserBrand(user)
  IN  IF prioritizeUser /\ TruthyText(user, "brand")
        THEN [brand |-> <<b>>, source |-> "user"]
      ELSE IF ~prioritizeUser /\ TruthyText(user, "brand") /\ Has(ai, "brand")
        THEN [brand |-> <<b>>, source |-> "merged"]
      ELSE [brand |-> Get(ai, "brand"), source |-> "ai"]

\* "Merge brand information"; brand is returned as a sequence of zero or one
\* BrandIdentification (zero: the merged brand is undefined)
MergeBrand(ai, user, prioritizeUser) ==
  IF prioritizeUser /\ TruthyText(user, "brand")
    THEN [brand |-> <<UserBrand(user)>>, source |-> "user"]
  ELSE IF ~prioritizeUser /\ TruthyText(user, "brand") /\ Has(ai, "brand")
    THEN [brand |-> <<UserBrand(user)>>, source |-> "merged"]
  ELSE [brand |-> Get(ai, "brand"), source |-> "ai"]

\* MergeCondition raising the confidence whenever the user names a condition
MergeCondition_AlwaysHigh(ai, user, prioritizeUser) ==
  [ condition |->
      IF prioritizeUser /\ TruthyEnum(user, "condition")
        THEN user.condition
        ELSE ai.condition,
    conditionConfidence |->
      IF TruthyEnum(user, "condition") THEN "high" ELSE ai.conditionConfidence,
    source |->
      IF TruthyEnum(user, "condition")
        THEN (IF prioritizeUser THEN "user" ELSE "merged")
        ELSE "ai" ]

\* MergeCondition tracking the provenance only when the user's value is taken
MergeCondition_SourceFollowsValue(ai, user, prioritizeUser) ==
  [ condition |->
      IF prioritizeUser /\ TruthyEnum(user, "condition")
        THEN user.condition
        ELSE ai.condition,
    conditionConfidence |->
      IF prioritizeUser /\ TruthyEnum(user, "condition")
        THEN "high"
        ELSE ai.conditionConfidence,
    source |->
      IF prioritizeUser /\ TruthyEnum(user, "condition") THEN "user" ELSE "ai" ]

\* "Merge condition"
MergeCondition(ai, user, prioritizeUser) ==
  [ condition |->
      IF prioritizeUser /\ TruthyEnum(user, "condition")
        THEN user.condition
        ELSE ai.condition,
    conditionConfidence |->
      IF prioritizeUser /\ TruthyEnum(user, "condition")
        THEN "high"
        ELSE ai.conditionConfidence,
    source |->
      IF TruthyEnum(user, "condition")
        THEN (IF prioritizeUser THEN "user" ELSE "merged")
        ELSE "ai" ]

\* one "if (userDetails.k ...) attributes.k = userDetails.k" step
OverwriteAttribute(attributes, user, k, supplied) ==
  IF supplied THEN Spread(attributes, k :> user[k]) ELSE attributes

UserSuppliesList(user, k) == Has(user, k) /\ Len(user[k]) > 0

\* MergeCustomAttributes with the spread's operands swapped: the AI wins a shared key
MergeCustomAttributes_AiWins(attributes, user) ==
  IF Has(user, "categorySpecificDetails")
    THEN Spread(attributes,
                "customAttributes" :>
                   Spread(user.categorySpecificDetails,
                          IF Has(attributes, "customAttributes")
                            THEN attributes.customAttributes
                            ELSE NoObject))
    ELSE attributes

\* "Merge category-specific attributes"
MergeCustomAttributes(attributes, user) ==
  IF Has(user, "categorySpecificDetails")
    THEN Spread(attributes,
                "customAttributes" :>
                   Spread(IF Has(attributes, "customAttributes")
                            THEN attributes.customAttributes
                            ELSE NoObject,
                          user.categorySpecificDetails))
    ELSE attributes

\* "Merge attributes"
MergeAttributes(ai, user) ==
  LET a0 == ai.attributes
      a1 == OverwriteAttribute(a0, user, "color", UserSuppliesList(user, "color"))
      a2 == OverwriteAttribute(a1, user, "material", UserSuppliesList(user, "material"))
      a3 == OverwriteAttribute(a2, user, "size", TruthyText(user, "size"))
      a4 == OverwriteAttribute(a3, user, "year", TruthyText(user, "year"))
      a5 == OverwriteAttribute(a4, user, "model", TruthyText(user, "model"))
      a6 == MergeCustomAttributes(a5, user)
  IN  [ attributes |-> a6,
        source |->
          IF \/ UserSuppliesList(user, "color")
             \/ UserSuppliesList(user, "material")
             \/ TruthyText(user, "size")
             \/ TruthyText(user, "year")
             \/ TruthyText(user, "model")
             \/ Has(user, "categorySpecificDetails")
            THEN "merged"
            ELSE "ai" ]

\* MergeDescription combining the descriptions without asking for a user description
MergeDescription_AlwaysEnhances(ai, user, prioritizeUser, enhanceDescription) ==
  IF prioritizeUser /\ TruthyText(user, "description")
    THEN [description |-> user.description, source |-> "user"]
  ELSE IF enhanceDescription
    THEN [description |->
            (IF Has(user, "description") THEN user.description ELSE <<>>)
              \o <<"\n", "\n">> \o ai.description,
          source |-> "merged"]
  ELSE [description |-> ai.description, source |-> "ai"]

\* "Merge description"
MergeDescription(ai, user, prioritizeUser, enhanceDescription) ==
  IF prioritizeUser /\ TruthyText(user, "description")
    THEN [description |-> user.description, source |-> "user"]
  ELSE IF enhanceDescription /\ TruthyText(user, "description")
    THEN [description |-> user.description \o <<"\n", "\n">> \o ai.description,
          source |-> "merged"]
  ELSE [description |-> ai.description, source |-> "ai"]

\* "Merge title"
MergeTitle(ai, user, prioritizeUser) ==
  IF prioritizeUser /\ TruthyText(user, "customTitle")
    THEN [suggestedTitle |-> user.customTitle, source |-> "user"]
  ELSE IF ~prioritizeUser /\ TruthyText(user, "customTitle")
                          /\ ai.suggestedTitle # <<>>
    THEN [suggestedTitle |-> ai.suggestedTitle, source |-> "merged"]
  ELSE [suggestedTitle |-> ai.suggestedTitle, source |-> "ai"]

\* [...new Set(list)]: the list without its later repeats, in insertion order
RECURSIVE SetOrder(_, _)
SetOrder(list, seen) ==
  IF list = <<>> THEN <<>>
  ELSE IF Head(list) \in seen THEN SetOrder(Tail(list), seen)
  ELSE <<Head(list)>> \o SetOrder(Tail(list), seen \cup {Head(list)})

\* the user's keywords the AI list lacks, appended to the AI list as it is
MergeKeywords_OnlyNewUserKeywords(ai, user) ==
  ai.suggestedKeywords
    \o SetOrder(IF Has(user, "customKeywords") THEN user.customKeywords ELSE <<>>,
                Range(ai.suggestedKeywords))

\* "Merge keywords" and the "Remove duplicates" of the result literal
MergeKeywords(ai, user) ==
  SetOrder(ai.suggestedKeywords
             \o (IF Has(user, "customKeywords") THEN user.customKeywords ELSE <<>>),
           {})

\* MissingFields without the placeholder check of productType
MissingFields_NoPlaceholder(data) ==
     (IF data.productType = <<>> THEN <<"productType">> ELSE <<>>)
  \o (IF data.condition = "" \/ data.condition = "unknown"
        THEN <<"condition">> ELSE <<>>)
  \o (IF ~Has(data, "category") \/ data.category.primary = T_Unknown
        THEN <<"category">> ELSE <<>>)

\* "Check required fields"
MissingFields(data) ==
     (IF data.productType = <<>> \/ data.productType = T_UnknownProduct
        THEN <<"productType">> ELSE <<>>)
  \o (IF data.condition = "" \/ data.condition = "unknown"
        THEN <<"condition">> ELSE <<>>)
  \o (IF ~Has(data, "category") \/ data.category.primary = T_Unknown
        THEN <<"category">> ELSE <<>>)

\* the low-confidence, optional-field and visual-quality warnings
Warnings(data) ==
     (IF data.overallConfidence = "low"
        THEN <<"Overall AI confidence is low - consider reviewing results">> ELSE <<>>)
  \o (IF data.conditionConfidence = "low"
        THEN <<"Condition assessment confidence is low">> ELSE <<>>)
  \o (IF data.category.confidence = "low"
        THEN <<"Category classification confidence is low">> ELSE <<>>)
  \o (IF ~Has(data, "brand")
        THEN <<"Brand not identified - consider adding manually">> ELSE <<>>)
  \o (IF ~Has(data.attributes, "color") \/ Len(data.attributes.color) = 0
        THEN <<"Color not identified">> ELSE <<>>)
  \o (IF data.visualQuality.imageQuality = "poor"
        THEN <<"Image quality is poor - consider uploading better photos">> ELSE <<>>)
  \o (IF data.visualQuality.background \in {"cluttered", "distracting"}
        THEN <<"Background is distracting - cleaner photos may improve analysis">>
        ELSE <<>>)

validateProductData(data) ==
  LET missingFields == MissingFields(data)
  IN  [ isComplete |-> Len(missingFields) = 0,
        missingFields |-> missingFields,
        warnings |-> Warnings(data) ]

\* the validationStatus the result literal starts with
EmptyValidationStatus ==
  [isComplete |-> FALSE, missingFields |-> <<>>, warnings |-> <<>>]

mergeProductData(ai, user, opts) ==
  LET prioritizeUser == OptionOrDefault(opts, "prioritizeUser")
      validateCompleteness == OptionOrDefault(opts, "validateCompleteness")
      enhanceDescription == OptionOrDefault(opts, "enhanceDescription")
      pt == MergeProductType(ai, user, prioritizeUser)
      br == MergeBrand(ai, user, prioritizeUser)
      co == MergeCondition(ai, user, prioritizeUser)
      at == MergeAttributes(ai, user)
      de == MergeDescription(ai, user, prioritizeUser, enhanceDescription)
      ti == MergeTitle(ai, user, prioritizeUser)
      dataSources ==
        [ productType |-> pt.source, brand |-> br.source, condition |-> co.source,
          attributes |-> at.source, description |-> de.source, title |-> ti.source ]
      fields ==
        [ productType |-> pt.productType,
          condition |-> co.condition,
          conditionConfidence |-> co.conditionConfidence,
          attributes |-> at.attributes,
          description |-> de.description,
          suggestedTitle |-> ti.suggestedTitle,
          suggestedKeywords |-> MergeKeywords(ai, user),
          dataSources |-> dataSources,
          userProvidedDetails |-> user,
          validationStatus |-> EmptyValidationStatus ]
      brand == IF br.brand = <<>> THEN NoObject ELSE [brand |-> br.brand[1]]
      data == Spread(Spread(Without(ai, "brand"), fields), brand)
  IN  IF validateCompleteness
        THEN Spread(data, [validationStatus |-> validateProductData(data)])
        ELSE data

-----------------------------------------------------------------------------
(* validateUserInput, src/unnamed/part_009:795-852 *)

Digits == <<"0", "1", "2", "3", "4", "5", "6", "7", "8", "9">>

IsDigit(c) == \E i \in DOMAIN Digits : Digits[i] = c

DigitValue(c) == (CHOOSE i \in DOMAIN Digits : Digits[i] = c) - 1

\* white space that parseInt skips in front of the number
IsWhiteSpace(c) == c \in {" ", "\t", "\n"}

RECURSIVE SkipWhiteSpace(_)
SkipWhiteSpace(text) ==
  IF text # <<>> /\ IsWhiteSpace(Head(text)) THEN SkipWhiteSpace(Tail(text)) ELSE text

\* the value of the longest prefix of digits of text, read after acc
RECURSIVE DigitsValue(_, _)
DigitsValue(text, acc) ==
  IF text # <<>> /\ IsDigit(Head(text))
    THEN DigitsValue(Tail(text), 10 * acc + DigitValue(Head(text)))
    ELSE acc

\* a number: NaN, or an integer value
NaN == [isNaN |-> TRUE]
Number(v) == [isNaN |-> FALSE, value |-> v]

\* isNaN(n)
isNaN(n) == n.isNaN

\* parseInt(text, 10): leading white space, an optional sign, then the longest
\* run of decimal digits; NaN if there is no digit there. The rest is ignored.
parseInt(text) ==
  LET t == SkipWhiteSpace(text)
      signed == t # <<>> /\ Head(t) \in {"-", "+"}
      body == IF signed THEN Tail(t) ELSE t
  IN  IF body = <<>> \/ ~IsDigit(Head(body)) THEN NaN
      ELSE IF signed /\ Head(t) = "-" THEN Number(0 - DigitsValue(body, 0))
      ELSE Number(DigitsValue(body, 0))

MaxBrandLength == 100
MaxModelLength == 100
MaxProductTypeLength == 200
MaxDescriptionLength == 5000
MaxCustomTitleLength == 200
MinYear == 1800
MaxColors == 10
MaxMaterials == 10
MaxCustomKeywords == 20

\* details.k && details.k.length > max, for a text k held as its length
TextTooLong(d, k, max) == Has(d, k) /\ d[k] # 0 /\ d[k] > max

\* details.k && details.k.length > max, for a list k
ListTooLong(d, k, max) == Has(d, k) /\ Len(d[k]) > max

\* "Validate condition enum"
ConditionInvalid(d) == TruthyEnum(d, "condition") /\ d.condition \notin ProductCondition

\* YearInvalid without the isNaN test
YearInvalid_RangeOnly(d, year) ==
  /\ TruthyText(d, "year")
  /\ LET yearNum == parseInt(d.year)
     IN  ~isNaN(yearNum) /\ (yearNum.value < MinYear \/ yearNum.value > year + 1)

\* "Validate year if provided"
YearInvalid(d, year) ==
  /\ TruthyText(d, "year")
  /\ LET yearNum == parseInt(d.year)
     IN  isNaN(yearNum) \/ yearNum.value < MinYear \/ yearNum.value > year + 1

\* errors.push(message) if failed
ErrorIf(failed, message) == IF failed THEN <<message>> ELSE <<>>

validateUserInput(d, year) ==
  LET errors ==
           ErrorIf(ConditionInvalid(d),
                   "Invalid condition value. Must be one of: new, like_new, excellent, good, fair, poor, for_parts, unknown")
        \o ErrorIf(TextTooLong(d, "brand", MaxBrandLength),
                   "Brand name must be 100 characters or less")
        \o ErrorIf(TextTooLong(d, "model", MaxModelLength),
                   "Model must be 100 characters or less")
        \o ErrorIf(TextTooLong(d, "productType", MaxProductTypeLength),
                   "Product type must be 200 characters or less")
        \o ErrorIf(TextTooLong(d, "description", MaxDescriptionLength),
                   "Description must be 5000 characters or less")
        \o ErrorIf(TextTooLong(d, "customTitle", MaxCustomTitleLength),
                   "Custom title must be 200 characters or less")
        \o ErrorIf(YearInvalid(d, year),
                   "Invalid year. Must be between 1800 and " \o ToString(year + 1))
        \o ErrorIf(ListTooLong(d, "color", MaxColors), "Maximum 10 colors allowed")
        \o ErrorIf(ListTooLong(d, "material", MaxMaterials), "Maximum 10 materials allowed")
        \o ErrorIf(ListTooLong(d, "customKeywords", MaxCustomKeywords),
                   "Maximum 20 custom keywords allowed")
  IN  [valid |-> Len(errors) = 0, errors |-> errors]

-----------------------------------------------------------------------------
(* Confidence scorer, src/unnamed/part_006:640-967 *)

UpperCaseLetters ==
  << "A", "B", "C", "D", "E", "F", "G", "H", "I", "J", "K", "L", "M",
     "N", "O", "P", "Q", "R", "S", "T", "U", "V", "W", "X", "Y", "Z" >>
LowerCaseLetters ==
  << "a", "b", "c", "d", "e", "f", "g", "h", "i", "j", "k", "l", "m",
     "n", "o", "p", "q", "r", "s", "t", "u", "v", "w", "x", "y", "z" >>

\* text.toLowerCase()
toLowerCase(text) ==
  [ i \in DOMAIN text |->
      IF \E j \in DOMAIN UpperCaseLetters : UpperCaseLetters[j] = text[i]
        THEN LowerCaseLetters[CHOOSE j \in DOMAIN UpperCaseLetters :
                                UpperCaseLetters[j] = text[i]]
        ELSE text[i] ]

\* text.includes(part)
includes(text, part) ==
  \E i \in 0..(Len(text) - Len(part)) : SubSeq(text, i + 1, i + Len(part)) = part

\* Math.min(100, Math.max(0, score))
Clamp(score) ==
  LET atLeast0 == IF score > 0 THEN score ELSE 0
  IN  IF atLeast0 < 100 THEN atLeast0 ELSE 100

confidenceLevelToScore(level) ==
  CASE level = "high" -> 85
    [] level = "medium" -> 60
    [] level = "low" -> 30
    [] OTHER -> 30

scoreToConfidenceLevel(score) ==
  IF score >= 75 THEN "high" ELSE IF score >= 50 THEN "medium" ELSE "low"

\* analysis.extractedText.some((text) => text.text.toLowerCase().includes(part.toLowerCase()))
SomeTextIncludes(a, part) ==
  \E i \in DOMAIN a.extractedText :
    includes(toLowerCase(a.extractedText[i].text), toLowerCase(part))

calculateProductTypeConfidence(a) ==
  LET s0 == confidenceLevelToScore(a.category.confidence)
      s1 == IF Has(a, "brand") /\ a.brand.verified THEN s0 + 10 ELSE s0
      s2 == IF TruthyText(a.attributes, "model") THEN s1 + 5 ELSE s1
      s3 == IF \/ includes(toLowerCase(a.productType), T_unknown)
               \/ includes(toLowerCase(a.productType), T_generic)
              THEN s2 - 20 ELSE s2
  IN  Clamp(s3)

calculateCategoryConfidence(a) ==
  LET s0 == confidenceLevelToScore(a.category.confidence)
      s1 == IF TruthyText(a.category, "secondary") THEN s0 + 5 ELSE s0
      s2 == IF TruthyText(a.category, "tertiary") THEN s1 + 5 ELSE s1
      s3 == IF SomeTextIncludes(a, a.category.primary) THEN s2 + 10 ELSE s2
  IN  Clamp(s3)

\* calculateBrandConfidence returning the sum without clamping it
calculateBrandConfidence_Unclamped(a) ==
  IF ~Has(a, "brand") THEN 0
  ELSE LET s0 == confidenceLevelToScore(a.brand.confidence)
           s1 == IF a.brand.verified THEN s0 + 20 ELSE s0
           s2 == IF SomeTextIncludes(a, a.brand.name) THEN s1 + 15 ELSE s1
       IN  s2

calculateBrandConfidence(a) ==
  IF ~Has(a, "brand") THEN 0
  ELSE LET s0 == confidenceLevelToScore(a.brand.confidence)
           s1 == IF a.brand.verified THEN s0 + 20 ELSE s0
           s2 == IF SomeTextIncludes(a, a.brand.name) THEN s1 + 15 ELSE s1
       IN  Clamp(s2)

\* calculateConditionConfidence without the early return for an unknown condition
calculateConditionConfidence_UnknownAdjusted(a) ==
  LET s0 == confidenceLevelToScore(a.conditionConfidence)
      q == a.visualQuality.imageQuality
      s1 == IF q = "excellent" THEN s0 + 15 ELSE IF q = "good" THEN s0 + 10 ELSE s0
      s2 == IF a.visualQuality.clarity = "sharp" THEN s1 + 10 ELSE s1
      s3 == IF q = "poor" THEN s2 - 20 ELSE s2
      s4 == IF Has(a, "defects") /\ TruthyText(a.defects, "description")
              THEN s3 + 5 ELSE s3
  IN  Clamp(s4)

calculateConditionConfidence(a) ==
  LET s0 == confidenceLevelToScore(a.conditionConfidence)
      q == a.visualQuality.imageQuality
      s1 == IF q = "excellent" THEN s0 + 15 ELSE IF q = "good" THEN s0 + 10 ELSE s0
      s2 == IF a.visualQuality.clarity = "sharp" THEN s1 + 10 ELSE s1
      s3 == IF q = "poor" THEN s2 - 20 ELSE s2
      s4 == IF Has(a, "defects") /\ TruthyText(a.defects, "description")
              THEN s3 + 5 ELSE s3
  IN  IF a.condition = "unknown"
        THEN (IF s0 < 20 THEN s0 ELSE 20)
        ELSE Clamp(s4)

\* 1 if the attribute is identified, else 0
Counted(identified) == IF identified THEN 1 ELSE 0

\* calculateAttributesConfidence with a base score of 40
calculateAttributesConfidence_Base40(a) ==
  LET attrs == a.attributes
      attributeCount ==
          Counted(Has(attrs, "color") /\ Len(attrs.color) > 0)
        + Counted(Has(attrs, "material") /\ Len(attrs.material) > 0)
        + Counted(TruthyText(attrs, "size"))
        + Counted(TruthyText(attrs, "style"))
        + Counted(TruthyText(attrs, "model"))
        + Counted(TruthyText(attrs, "year"))
        + Counted(Has(attrs, "dimensions"))
        + Counted(TruthyText(attrs, "weight"))
  IN  Clamp(40 + attributeCount * 5 + (IF Len(a.extractedText) > 0 THEN 10 ELSE 0))

calculateAttributesConfidence(a) ==
  LET attrs == a.attributes
      attributeCount ==
          Counted(Has(attrs, "color") /\ Len(attrs.color) > 0)
        + Counted(Has(attrs, "material") /\ Len(attrs.material) > 0)
        + Counted(TruthyText(attrs, "size"))
        + Counted(TruthyText(attrs, "style"))
        + Counted(TruthyText(attrs, "model"))
        + Counted(TruthyText(attrs, "year"))
        + Counted(Has(attrs, "dimensions"))
        + Counted(TruthyText(attrs, "weight"))
      s0 == 50 + attributeCount * 5
      s1 == IF Len(a.extractedText) > 0 THEN s0 + 10 ELSE s0
      s2 == IF \E i \in DOMAIN a.extractedText : a.extractedText[i].confidence = "high"
              THEN s1 + 10 ELSE s1
  IN  Clamp(s2)

calculateVisualQualityConfidence(a) ==
  LET vq == a.visualQuality
      imageQuality ==
        CASE vq.imageQuality = "excellent" -> 30
          [] vq.imageQuality = "good" -> 20
          [] vq.imageQuality = "fair" -> 10
          [] vq.imageQuality = "poor" -> 0 - 20
          [] OTHER -> 0
      lighting ==
        CASE vq.lighting = "good" -> 10
          [] vq.lighting = "fair" -> 5
          [] vq.lighting = "poor" -> 0 - 15
          [] OTHER -> 0
      clarity ==
        CASE vq.clarity = "sharp" -> 10
          [] vq.clarity = "slightly_blurry" -> 0
          [] vq.clarity = "blurry" -> 0 - 15
          [] OTHER -> 0
      background ==
        IF vq.background = "clean" THEN 5
        ELSE IF vq.background = "distracting" THEN 0 - 10
        ELSE 0
  IN  Clamp(50 + imageQuality + lighting + clarity + background)

\* Math.round(x / 100) of a sum x >= 0 of hundredths: the nearest integer, a
\* half going up. The weights are hundredths, so the weighted sum is held as
\* an integer number of hundredths; on every tuple of scores the scorers can
\* return the double-precision sum rounds to the same integer.
RoundHundredths(x) == (x + 50) \div 100

calculateOverallConfidence(a) ==
  RoundHundredths(
      calculateProductTypeConfidence(a) * 25
    + calculateCategoryConfidence(a) * 15
    + calculateBrandConfidence(a) * 15
    + calculateConditionConfidence(a) * 20
    + calculateAttributesConfidence(a) * 15
    + calculateVisualQualityConfidence(a) * 10)

getConfidenceBreakdown(a) ==
  [ productType |-> calculateProductTypeConfidence(a),
    category |-> calculateCategoryConfidence(a),
    brand |-> calculateBrandConfidence(a),
    condition |-> calculateConditionConfidence(a),
    attributes |-> calculateAttributesConfidence(a),
    visualQuality |-> calculateVisualQualityConfidence(a),
    overall |-> calculateOverallConfidence(a) ]

-----------------------------------------------------------------------------
(* JavaScript numbers: the double-precision arithmetic of                    *)
(* Math.round((completedFields / totalFields) * 100),                        *)
(* src/src/services/productEnrichment.ts:362.  A positive double is a record *)
(* [bits, exp]: bits is its significand, most significant bit first, and its *)
(* value is the integer bits spell times 2^exp.  Zero is [bits |-> <<>>].    *)

\* the bits of the significand of a double
Precision == 53

\* the integer a short bit sequence spells
RECURSIVE BitsValue(_)
BitsValue(bits) ==
  IF bits = <<>> THEN 0
  ELSE 2 * BitsValue(SubSeq(bits, 1, Len(bits) - 1)) + bits[Len(bits)]

\* the bits of a natural number, none for 0
RECURSIVE ToBits(_)
ToBits(n) == IF n = 0 THEN <<>> ELSE ToBits(n \div 2) \o <<n % 2>>

\* bits + 1, one bit longer if every bit was 1
RECURSIVE Increment(_)
Increment(bits) ==
  IF bits = <<>> THEN <<1>>
  ELSE IF bits[Len(bits)] = 0
    THEN SubSeq(bits, 1, Len(bits) - 1) \o <<1>>
    ELSE Increment(SubSeq(bits, 1, Len(bits) - 1)) \o <<0>>

\* round to nearest, ties to even: bits with the bits after the first
\* Precision dropped, `sticky` saying that what was cut off after them is not 0
RoundToPrecision(bits, exp, sticky) ==
  IF Len(bits) <= Precision THEN [bits |-> bits, exp |-> exp]
  ELSE LET kept == SubSeq(bits, 1, Precision)
           dropped == SubSeq(bits, Precision + 1, Len(bits))
           drop == Len(dropped)
           more == sticky \/ \E i \in 2..drop : dropped[i] = 1
           up == dropped[1] = 1 /\ (more \/ kept[Precision] = 1)
           rounded == IF up THEN Increment(kept) ELSE kept
       IN  IF Len(rounded) > Precision
             THEN [bits |-> SubSeq(rounded, 1, Precision), exp |-> exp + drop + 1]
             ELSE [bits |-> rounded, exp |-> exp + drop]

\* the next n bits of rem / b, for 0 <= rem < b
RECURSIVE QuotientBits(_, _, _)
QuotientBits(rem, b, n) ==
  IF n = 0 THEN <<>>
  ELSE LET bit == IF 2 * rem >= b THEN 1 ELSE 0
       IN  <<bit>> \o QuotientBits(2 * rem - bit * b, b, n - 1)

\* what is left of rem after n bits of rem / b
RECURSIVE QuotientRest(_, _, _)
QuotientRest(rem, b, n) ==
  IF n = 0 \/ rem = 0 THEN rem
  ELSE QuotientRest(IF 2 * rem >= b THEN 2 * rem - b ELSE 2 * rem, b, n - 1)

\* the least k with a * 2^k >= b
RECURSIVE ShiftUp(_, _)
ShiftUp(a, b) == IF a >= b THEN 0 ELSE 1 + ShiftUp(2 * a, b)

\* the greatest k with a >= b * 2^k, for a >= b
RECURSIVE ShiftDown(_, _)
ShiftDown(a, b) == IF a < 2 * b THEN 0 ELSE 1 + ShiftDown(a, 2 * b)

\* 2^k
RECURSIVE PowerOf2(_)
PowerOf2(k) == IF k = 0 THEN 1 ELSE 2 * PowerOf2(k - 1)

\* a / b, for naturals a and b > 0
DoubleDivide(a, b) ==
  IF a = 0 THEN [bits |-> <<>>]
  ELSE LET up == ShiftUp(a, b)
           a1 == a * PowerOf2(up)
           down == ShiftDown(a1, b)
           b1 == b * PowerOf2(down)
           \* now b1 <= a1 < 2 * b1: the quotient is in [1, 2)
           bits == <<1>> \o QuotientBits(a1 - b1, b1, Precision)
           rest == QuotientRest(a1 - b1, b1, Precision)
       IN  RoundToPrecision(bits, down - up - Precision, rest # 0)

\* the sequence in the opposite order
Reverse(s) == [i \in 1..Len(s) |-> s[Len(s) - i + 1]]

\* the bits of bits * n + carry, least significant bit first, for a natural n
RECURSIVE TimesBitsReversed(_, _, _)
TimesBitsReversed(bits, n, carry) ==
  IF bits = <<>> THEN Reverse(ToBits(carry))
  ELSE LET v == bits[Len(bits)] * n + carry
       IN  <<v % 2>> \o TimesBitsReversed(SubSeq(bits, 1, Len(bits) - 1), n, v \div 2)

\* bits * n
TimesBits(bits, n) == Reverse(TimesBitsReversed(bits, n, 0))

\* d * n, for a natural n > 0
DoubleTimes(d, n) ==
  IF d.bits = <<>> THEN d
  ELSE RoundToPrecision(TimesBits(d.bits, n), d.exp, FALSE)

\* Math.round(d): floor(d + 0.5), for d >= 0 with an integer part of few bits
MathRound(d) ==
  IF d.bits = <<>> THEN 0
  ELSE LET whole == Len(d.bits) + d.exp   \* the number of bits before the point
       IN  IF whole < 0 THEN 0
           ELSE IF whole >= Len(d.bits)
             THEN BitsValue(d.bits) * PowerOf2(d.exp)
           ELSE BitsValue(SubSeq(d.bits, 1, whole)) + d.bits[whole + 1]

-----------------------------------------------------------------------------
(* getConfidenceRecommendations, src/unnamed/part_006:974-1041 *)

\* recommendations.push(message) if wanted
PushIf(wanted, message) == IF wanted THEN <<message>> ELSE <<>>

getConfidenceRecommendations(a) ==
  LET scores == getConfidenceBreakdown(a)
      vq == a.visualQuality
  IN     (IF scores.visualQuality < 50
            THEN    PushIf(vq.imageQuality = "poor",
                           "Upload higher quality images for better analysis accuracy")
                 \o PushIf(vq.lighting = "poor",
                           "Use better lighting when photographing the product")
                 \o PushIf(vq.clarity = "blurry",
                           "Ensure images are in focus and not blurry for better recognition")
                 \o PushIf(vq.background # "clean",
                           "Use a clean, uncluttered background to improve product identification")
            ELSE <<>>)
      \o PushIf(scores.productType < 60,
                "Consider providing additional details about the product type manually")
      \o PushIf(scores.brand < 60,
                "If the brand is known, provide it manually to improve accuracy")
      \o PushIf(scores.condition < 60,
                "Provide detailed condition information for more accurate listings")
      \o PushIf(scores.attributes < 50,
                "Add missing product attributes (color, size, model, etc.) manually")
      \o (IF Has(vq, "recommendations") /\ Len(vq.recommendations) > 0
            THEN vq.recommendations ELSE <<>>)

-----------------------------------------------------------------------------
(* Product enrichment service, src/src/services/productEnrichment.ts:69-513. *)
(* A sentiment score is held in twentieths: the deltas the code adds are all *)
(* multiples of 0.05, so 20 is the score 1.0 and -20 the score -1.0.  A      *)
(* message is a TLA+ string; a text put into a message is converted by Str.  *)

\* the string of a text, as a template literal `${text}` gives it
RECURSIVE Str(_)
Str(text) == IF text = <<>> THEN "" ELSE Head(text) \o Str(Tail(text))

positiveKeywords ==
  << <<"e", "x", "c", "e", "l", "l", "e", "n", "t">>,
     <<"p", "e", "r", "f", "e", "c", "t">>,
     <<"p", "r", "i", "s", "t", "i", "n", "e">>,
     <<"m", "i", "n", "t">>,
     <<"f", "l", "a", "w", "l", "e", "s", "s">>,
     <<"n", "e", "w">>,
     <<"u", "n", "u", "s", "e", "d">>,
     <<"o", "r", "i", "g", "i", "n", "a", "l">>,
     <<"w", "a", "r", "r", "a", "n", "t", "y">>,
     <<"c", "e", "r", "t", "i", "f", "i", "e", "d">> >>

negativeKeywords ==
  << <<"d", "a", "m", "a", "g", "e">>,
     <<"b", "r", "o", "k", "e", "n">>,
     <<"w", "o", "r", "n">>,
     <<"s", "c", "r", "a", "t", "c", "h", "e", "d">>,
     <<"d", "e", "n", "t", "e", "d">>,
     <<"s", "t", "a", "i", "n", "e", "d">>,
     <<"m", "i", "s", "s", "i", "n", "g">>,
     <<"d", "e", "f", "e", "c", "t">>,
     <<"c", "r", "a", "c", "k">>,
     <<"c", "h", "i", "p">> >>

\* the switch on analysis.condition
ConditionSentiment(condition) ==
  CASE condition = "new" -> 20
    [] condition = "like_new" -> 16
    [] condition = "excellent" -> 12
    [] condition = "good" -> 8
    [] condition = "fair" -> 4
    [] condition = "poor" -> 0 - 8
    [] condition = "for_parts" -> 0 - 16
    [] OTHER -> 0

\* [scratches, dents, stains, tears, missingParts, wear].filter(Boolean).length
DefectCount(defects) ==
  Cardinality({k \in {"scratches", "dents", "stains", "tears", "missingParts", "wear"} :
                 Has(defects, k) /\ defects[k]})

\* "Severity adjustment"
SeverityPenalty(defects) ==
  IF ~Has(defects, "severity") THEN 0
  ELSE CASE defects.severity = "severe" -> 6
         [] defects.severity = "moderate" -> 3
         [] defects.severity = "minor" -> 1
         [] OTHER -> 0

\* the keywords of the list that description includes
KeywordsFound(keywords, description) ==
  {i \in DOMAIN keywords : includes(description, keywords[i])}

\* the sum of analyzeSentiment before it is normalized
SentimentSum(a) ==
  LET description == toLowerCase(a.description)
  IN  ConditionSentiment(a.condition)
        - (IF Has(a, "defects")
             THEN DefectCount(a.defects) * 2 + SeverityPenalty(a.defects)
             ELSE 0)
        + Cardinality(KeywordsFound(positiveKeywords, description))
        - Cardinality(KeywordsFound(negativeKeywords, description))

\* analyzeSentiment returning the sum as it is
analyzeSentiment_Unclamped(a) == SentimentSum(a)

\* Math.max(-1, Math.min(1, score)), in twentieths
analyzeSentiment(a) ==
  LET score == SentimentSum(a)
      atMost1 == IF score < 20 THEN score ELSE 20
  IN  IF atMost1 > 0 - 20 THEN atMost1 ELSE 0 - 20

\* field.value && field.value !== ProductCondition.UNKNOWN &&
\* field.value !== 'Unknown' && field.value !== 'Unknown Product', for a text
CriticalTextGiven(text) ==
  text # <<>> /\ text \notin {T_unknown, T_Unknown, T_UnknownProduct}

\* the same test for the condition, an enum member
CriticalConditionGiven(condition) ==
  condition # "" /\ condition \notin {"unknown", "Unknown", "Unknown Product"}

\* criticalFields: name, whether it counts as completed, weight in halves
CriticalFields(a) ==
  << [name |-> "productType", given |-> CriticalTextGiven(a.productType), weight |-> 6],
     [name |-> "condition", given |-> CriticalConditionGiven(a.condition), weight |-> 6],
     [name |-> "category", given |-> CriticalTextGiven(a.category.primary), weight |-> 4],
     [name |-> "description", given |-> Len(a.description) > 20, weight |-> 4],
     [name |-> "suggestedTitle", given |-> CriticalTextGiven(a.suggestedTitle),
      weight |-> 4] >>

\* optionalFields: a text that is not empty, a list that is not empty
OptionalFields(a) ==
  << [name |-> "brand",
      given |-> Has(a, "brand") /\ a.brand.name # <<>>, weight |-> 3],
     [name |-> "color",
      given |-> Has(a.attributes, "color") /\ Len(a.attributes.color) > 0, weight |-> 2],
     [name |-> "model", given |-> TruthyText(a.attributes, "model"), weight |-> 3],
     [name |-> "size", given |-> TruthyText(a.attributes, "size"), weight |-> 2],
     [name |-> "material",
      given |-> Has(a.attributes, "material") /\ Len(a.attributes.material) > 0,
      weight |-> 2] >>

\* the sum of the weights of the fields of the list
RECURSIVE TotalWeight(_)
TotalWeight(fields) ==
  IF fields = <<>> THEN 0 ELSE Head(fields).weight + TotalWeight(Tail(fields))

\* the sum of the weights of the fields of the list that are given
RECURSIVE CompletedWeight(_)
CompletedWeight(fields) ==
  IF fields = <<>> THEN 0
  ELSE (IF Head(fields).given THEN Head(fields).weight ELSE 0)
         + CompletedWeight(Tail(fields))

\* the names of the fields of the list that are not given, in the list's order
RECURSIVE NamesMissing(_)
NamesMissing(fields) ==
  IF fields = <<>> THEN <<>>
  ELSE (IF Head(fields).given THEN <<>> ELSE <<Head(fields).name>>)
         \o NamesMissing(Tail(fields))

\* the names of `names` that `listed` lacks: !missingCriticalInfo.includes(field.name)
RECURSIVE PushUnlessIncluded(_, _)
PushUnlessIncluded(listed, names) ==
  IF names = <<>> THEN listed
  ELSE PushUnlessIncluded(
         IF \E i \in DOMAIN listed : listed[i] = Head(names)
           THEN listed ELSE Append(listed, Head(names)),
         Tail(names))

\* Math.round((completedFields / totalFields) * 100), the weights in halves
CompletenessPercent(completedHalves, totalHalves) ==
  MathRound(DoubleTimes(DoubleDivide(completedHalves, totalHalves), 100))

checkCompleteness(a) ==
  LET fields == CriticalFields(a) \o OptionalFields(a)
      imageGood == a.visualQuality.imageQuality \in {"excellent", "good"}
      hasFeatures == Len(a.features) > 0
      totalFields == TotalWeight(fields) + 2 + 2
      completedFields == CompletedWeight(fields)
                           + (IF imageGood THEN 2 ELSE 0)
                           + (IF hasFeatures THEN 2 ELSE 0)
  IN  [ completenessScore |-> CompletenessPercent(completedFields, totalFields),
        missingCriticalInfo |->
          PushUnlessIncluded(NamesMissing(CriticalFields(a)),
                             NamesMissing(OptionalFields(a))) ]

\* productCache: a Map, held as the sequence of its [key, value] entries in
\* the order of insertion
\* this.productCache.get(key), as a sequence of zero or one entries
MapGet(map, key) ==
  IF \E i \in DOMAIN map : map[i].key = key
    THEN <<map[CHOOSE i \in DOMAIN map : map[i].key = key].value>>
    ELSE <<>>

\* this.productCache.set(key, value): a key the map has keeps its place
MapSet(map, key, value) ==
  IF \E i \in DOMAIN map : map[i].key = key
    THEN [i \in DOMAIN map |->
            IF map[i].key = key THEN [key |-> key, value |-> value] ELSE map[i]]
    ELSE Append(map, [key |-> key, value |-> value])

\* `${brand}:${model}`
BrandModelKey(brand, model) == brand \o <<":">> \o model

\* addProductToCache that files an entry under its first identifier only
addProductToCache_FirstKeyOnly(cache, entry) ==
  IF TruthyText(entry, "upc") THEN MapSet(cache, entry.upc, entry)
  ELSE IF TruthyText(entry, "ean") THEN MapSet(cache, entry.ean, entry)
  ELSE IF entry.brand # <<>> /\ TruthyText(entry, "model")
    THEN MapSet(cache, BrandModelKey(entry.brand, entry.model), entry)
  ELSE cache

addProductToCache(cache, entry) ==
  LET c1 == IF TruthyText(entry, "upc") THEN MapSet(cache, entry.upc, entry) ELSE cache
      c2 == IF TruthyText(entry, "ean") THEN MapSet(c1, entry.ean, entry) ELSE c1
  IN  IF entry.brand # <<>> /\ TruthyText(entry, "model")
        THEN MapSet(c2, BrandModelKey(entry.brand, entry.model), entry)
        ELSE c2

\* getCachedProducts listing every product once
getCachedProducts_OncePerProduct(cache) ==
  SetOrder([i \in DOMAIN cache |-> cache[i].value], {})

\* Array.from(this.productCache.values())
getCachedProducts(cache) == [i \in DOMAIN cache |-> cache[i].value]

\* clearCache that forgets the entries filed under a UPC or EAN only
clearCache_KeepsBrandModel(cache) ==
  SelectSeq(cache, LAMBDA e : \E i \in DOMAIN e.key : e.key[i] = ":")

\* this.productCache.clear()
clearCache(cache) == <<>>

\* \w of a regular expression
IsWordCharacter(c) ==
  \/ IsDigit(c)
  \/ c = "_"
  \/ \E i \in DOMAIN UpperCaseLetters : UpperCaseLetters[i] = c
  \/ \E i \in DOMAIN LowerCaseLetters : LowerCaseLetters[i] = c

\* \b between the places i and i + 1 of text
WordBoundary(text, i) ==
  (i >= 1 /\ i <= Len(text) /\ IsWordCharacter(text[i]))
    # (i + 1 >= 1 /\ i + 1 <= Len(text) /\ IsWordCharacter(text[i + 1]))

\* the shortest and the longest run of digits upcPattern takes
MinUpcDigits == 12
MaxUpcDigits == 13

\* /\b\d{12,13}\b/ matches n characters of text from place i on
UpcMatchesAt(text, i, n) ==
  /\ i + n - 1 <= Len(text)
  /\ WordBoundary(text, i - 1)
  /\ WordBoundary(text, i + n - 1)
  /\ \A j \in i..(i + n - 1) : IsDigit(text[j])

\* text.match(upcPattern): the leftmost match, the longer one first, as a
\* sequence of zero or one texts
MatchUpc(text) ==
  LET starts == {i \in DOMAIN text :
                   \E n \in MinUpcDigits..MaxUpcDigits : UpcMatchesAt(text, i, n)}
  IN  IF starts = {} THEN <<>>
      ELSE LET i == CHOOSE j \in starts : \A k \in starts : j <= k
               n == CHOOSE m \in MinUpcDigits..MaxUpcDigits :
                      /\ UpcMatchesAt(text, i, m)
                      /\ \A l \in MinUpcDigits..MaxUpcDigits :
                           UpcMatchesAt(text, i, l) => l <= m
           IN  <<SubSeq(text, i, i + n - 1)>>

\* extractUPC: the match of the first text that has one
RECURSIVE extractUPC(_)
extractUPC(texts) ==
  IF texts = <<>> THEN <<>>
  ELSE IF MatchUpc(Head(texts)) # <<>> THEN MatchUpc(Head(texts))
  ELSE extractUPC(Tail(texts))

\* the lookup by `${brand.name}:${model}`
LookupBrandModel(cache, a) ==
  IF Has(a, "brand") /\ TruthyText(a.attributes, "model")
    THEN MapGet(cache, BrandModelKey(a.brand.name, a.attributes.model))
    ELSE <<>>

\* lookupProductInDatabase trying the brand and model before the UPC
lookupProductInDatabase_BrandModelFirst(cache, a) ==
  LET upcMatch == extractUPC([i \in DOMAIN a.extractedText |-> a.extractedText[i].text])
  IN  IF LookupBrandModel(cache, a) # <<>> THEN LookupBrandModel(cache, a)
      ELSE IF upcMatch # <<>> THEN MapGet(cache, upcMatch[1])
      ELSE <<>>

\* lookupProductInDatabase, as a sequence of zero or one entries
lookupProductInDatabase(cache, a) ==
  LET upcMatch == extractUPC([i \in DOMAIN a.extractedText |-> a.extractedText[i].text])
  IN  IF upcMatch # <<>> /\ MapGet(cache, upcMatch[1]) # <<>>
        THEN MapGet(cache, upcMatch[1])
        ELSE LookupBrandModel(cache, a)

\* enrichProductAnalysis writing the database match into the analysis
enrichProductAnalysis_MergesMatch(cache, a, opts) ==
  LET databaseMatch ==
        IF OptionOrDefault(opts, "enableDatabaseLookup")
          THEN lookupProductInDatabase(cache, a) ELSE <<>>
      completeness ==
        IF OptionOrDefault(opts, "enableCompletenessCheck")
          THEN checkCompleteness(a)
          ELSE [completenessScore |-> 100, missingCriticalInfo |-> <<>>]
      enrichmentData ==
        [ confidenceScores |-> getConfidenceBreakdown(a),
          recommendations |-> getConfidenceRecommendations(a),
          completenessScore |-> completeness.completenessScore,
          missingCriticalInfo |-> completeness.missingCriticalInfo ]
        @@ (IF databaseMatch # <<>>
              THEN [databaseMatch |-> databaseMatch[1]] ELSE NoObject)
        @@ (IF OptionOrDefault(opts, "enableSentimentAnalysis")
              THEN [sentimentScore |-> analyzeSentiment(a)] ELSE NoObject)
  IN  Spread(a, [enrichmentData |-> enrichmentData]
                  @@ (IF databaseMatch # <<>>
                        THEN [productType |-> databaseMatch[1].productName,
                              overallConfidence |-> "high"]
                        ELSE NoObject))

enrichProductAnalysis(cache, a, opts) ==
  LET enableDatabaseLookup == OptionOrDefault(opts, "enableDatabaseLookup")
      enableSentimentAnalysis == OptionOrDefault(opts, "enableSentimentAnalysis")
      enableCompletenessCheck == OptionOrDefault(opts, "enableCompletenessCheck")
      confidenceScores == getConfidenceBreakdown(a)
      databaseMatch ==
        IF enableDatabaseLookup THEN lookupProductInDatabase(cache, a) ELSE <<>>
      recommendations ==
        getConfidenceRecommendations(a)
          \o (IF databaseMatch # <<>>
                THEN <<"Product matched in database: "
                         \o Str(databaseMatch[1].productName)>>
                ELSE <<>>)
      completeness ==
        IF enableCompletenessCheck
          THEN checkCompleteness(a)
          ELSE [completenessScore |-> 100, missingCriticalInfo |-> <<>>]
      enrichmentData ==
        [ confidenceScores |-> confidenceScores,
          recommendations |-> recommendations,
          completenessScore |-> completeness.completenessScore,
          missingCriticalInfo |-> completeness.missingCriticalInfo ]
        @@ (IF databaseMatch # <<>>
              THEN [databaseMatch |-> databaseMatch[1]] ELSE NoObject)
        @@ (IF enableSentimentAnalysis
              THEN [sentimentScore |-> analyzeSentiment(a)] ELSE NoObject)
  IN  Spread(a, [enrichmentData |-> enrichmentData])

\* minConfidence: number = 50
DefaultMinConfidence == 50

\* the completeness below which validateEnrichedProduct warns
MinCompleteness == 60

\* the argument minConfidence, a sequence of zero or one numbers
MinConfidenceOrDefault(arg) == IF arg = <<>> THEN DefaultMinConfidence ELSE arg[1]

\* names.join(', ')
RECURSIVE Join(_)
Join(names) ==
  IF names = <<>> THEN ""
  ELSE IF Len(names) = 1 THEN names[1]
  ELSE names[1] \o ", " \o Join(Tail(names))

\* the errors of validateEnrichedProduct
EnrichedErrors(e, minConfidence) ==
  LET overall == e.enrichmentData.confidenceScores.overall
  IN     PushIf(overall < minConfidence,
                "Overall confidence score (" \o ToString(overall)
                  \o ") is below minimum required (" \o ToString(minConfidence) \o ")")
      \o PushIf(e.condition = "unknown", "Product condition could not be determined")

\* the warnings of validateEnrichedProduct before the recommendations are added
EnrichedWarnings(e) ==
  LET data == e.enrichmentData
  IN     PushIf(data.completenessScore < MinCompleteness,
                "Product data is incomplete (" \o ToString(data.completenessScore)
                  \o "% complete)")
      \o PushIf(Len(data.missingCriticalInfo) > 0,
                "Missing critical information: " \o Join(data.missingCriticalInfo))
      \o PushIf(e.visualQuality.imageQuality = "poor",
                "Image quality is poor - may affect analysis accuracy")

\* validateEnrichedProduct adding every recommendation to the warnings
validateEnrichedProduct_PushesAll(e, arg) ==
  LET errors == EnrichedErrors(e, MinConfidenceOrDefault(arg))
  IN  [ valid |-> Len(errors) = 0,
        errors |-> errors,
        warnings |-> EnrichedWarnings(e) \o e.enrichmentData.recommendations ]

validateEnrichedProduct(e, arg) ==
  LET errors == EnrichedErrors(e, MinConfidenceOrDefault(arg))
  IN  [ valid |-> Len(errors) = 0,
        errors |-> errors,
        warnings |->
          PushUnlessIncluded(EnrichedWarnings(e), e.enrichmentData.recommendations) ]

\* Math.max(a, b)
Max(a, b) == IF a > b THEN a ELSE b

\* the score a database match stands for
DatabaseMatchConfidence == 85

\* the fields, the category of the database laid over that of the analysis
DatabaseFields_CategoryPatched(a, dbEntry) ==
  [ productType |->
      IF dbEntry.productName # <<>> THEN dbEntry.productName ELSE a.productType,
    category |->
      IF dbEntry.category # <<>>
        THEN Spread(a.category, [primary |-> dbEntry.category, confidence |-> "high"])
        ELSE a.category,
    attributes |->
      Spread(Spread(Without(a.attributes, "model"),
                    IF TruthyText(dbEntry, "model") THEN [model |-> dbEntry.model]
                    ELSE IF Has(a.attributes, "model") THEN [model |-> a.attributes.model]
                    ELSE NoObject),
             [customAttributes |->
                Spread(IF Has(a.attributes, "customAttributes")
                         THEN a.attributes.customAttributes ELSE NoObject,
                       IF Has(dbEntry, "attributes") THEN dbEntry.attributes
                                                      ELSE NoObject)]) ]
  @@ (IF dbEntry.brand # <<>>
        THEN [brand |-> [name |-> dbEntry.brand, confidence |-> "high", verified |-> TRUE]]
        ELSE IF Has(a, "brand") THEN [brand |-> a.brand] ELSE NoObject)

\* the fields of mergeWithDatabaseEntry other than overallConfidence
DatabaseFields(a, dbEntry) ==
  [ productType |->
      IF dbEntry.productName # <<>> THEN dbEntry.productName ELSE a.productType,
    category |->
      IF dbEntry.category # <<>>
        THEN [primary |-> dbEntry.category, confidence |-> "high"]
        ELSE a.category,
    attributes |->
      Spread(Spread(Without(a.attributes, "model"),
                    IF TruthyText(dbEntry, "model") THEN [model |-> dbEntry.model]
                    ELSE IF Has(a.attributes, "model") THEN [model |-> a.attributes.model]
                    ELSE NoObject),
             [customAttributes |->
                Spread(IF Has(a.attributes, "customAttributes")
                         THEN a.attributes.customAttributes ELSE NoObject,
                       IF Has(dbEntry, "attributes") THEN dbEntry.attributes
                                                      ELSE NoObject)]) ]
  @@ (IF dbEntry.brand # <<>>
        THEN [brand |-> [name |-> dbEntry.brand, confidence |-> "high", verified |-> TRUE]]
        ELSE IF Has(a, "brand") THEN [brand |-> a.brand] ELSE NoObject)

\* mergeWithDatabaseEntry taking the label of the analysis's score as it is
mergeWithDatabaseEntry_ScoreAsItIs(a, dbEntry) ==
  Spread(Without(a, "brand"),
         DatabaseFields(a, dbEntry)
           @@ [overallConfidence |-> scoreToConfidenceLevel(calculateOverallConfidence(a))])

mergeWithDatabaseEntry(a, dbEntry) ==
  Spread(Without(a, "brand"),
         DatabaseFields(a, dbEntry)
           @@ [overallConfidence |->
                 scoreToConfidenceLevel(
                   Max(calculateOverallConfidence(a), DatabaseMatchConfidence))])

-----------------------------------------------------------------------------
(* Post generation service, src/src/services/postGenerationService.ts.  *)
(* generatePost is followed from one await to the next: each request to the  *)
(* text model is in flight until the model responds or the request fails.    *)
(* The texts of the post, its tone and its emojis are not held: the prompts, *)
(* suggestEmojis and formatMarketplacePost are synchronous, throw nothing,   *)
(* and decide neither which requests are made nor what they cost.            *)

DescriptionStyle ==
  {"feature_focused", "benefit_focused", "story_based", "concise", "detailed"}

variantApproaches ==
  << [id |-> "variant-benefit-focused", style |-> "benefit_focused"],
     [id |-> "variant-story-based", style |-> "story_based"],
     [id |-> "variant-concise", style |-> "concise"],
     [id |-> "variant-detailed", style |-> "detailed"] >>

\* response.usage?.total_tokens || 0, the usage a sequence of zero or one numbers
TokensUsed(response) == IF response.usage = <<>> THEN 0 ELSE response.usage[1]

\* the request was rejected
Failed(response) == Has(response, "error")

\* handleError classifying every thrown value by its status alone
handleError_ByStatusAlone(error) ==
  [ success |-> FALSE,
    error |->
      [ code |-> IF Has(error, "code") /\ error.code # "" THEN error.code
                 ELSE "OPENAI_API_ERROR",
        message |-> IF Has(error, "message") THEN error.message ELSE "",
        retryable |-> /\ Has(error, "status")
                      /\ error.status # <<>>
                      /\ (error.status[1] = 429 \/ error.status[1] >= 500) ] ]

\* handleError: a thrown value is a record; it has the field status (code)
\* when 'status' in error ('code' in error); a status that is undefined is
\* <<>>, a code that is null or undefined is ""
handleError(error) ==
  [ success |-> FALSE,
    error |->
      IF Has(error, "status") /\ Has(error, "code")
        THEN [ code |-> IF error.code # "" THEN error.code ELSE "OPENAI_API_ERROR",
               message |-> error.message,
               retryable |-> error.status = <<429>>
                               \/ (IF error.status = <<>> THEN 0 ELSE error.status[1]) >= 500 ]
      ELSE IF error.isError
        THEN [code |-> "GENERATION_ERROR", message |-> error.message, retryable |-> FALSE]
      ELSE [ code |-> "UNKNOWN_ERROR",
             message |-> "An unknown error occurred during post generation",
             retryable |-> FALSE ] ]

\* the destructuring of options at the start of generatePost
StartOfGeneration(opts) ==
  [ style |-> IF Has(opts, "style") THEN opts.style ELSE "feature_focused",
    generateVariants |-> IF Has(opts, "generateVariants") THEN opts.generateVariants
                                                          ELSE FALSE,
    variantCount |-> IF Has(opts, "variantCount") THEN opts.variantCount ELSE 2,
    totalTokens |-> 0 ]

\* the return of generatePost at the end of its try block
Generated(p) ==
  [ success |-> TRUE,
    primaryPost |-> p.primaryPost,
    totalTokensUsed |-> IF p.generateVariants THEN p.totalTokens + p.variantTokens
                                              ELSE p.totalTokens ]
  @@ (IF p.generateVariants THEN [variants |-> p.variants] ELSE NoObject)

\* the loop of generateABTestingVariants from index i on: the next approach
\* whose style is not the primary post's is requested, and when there is none
\* the variants are returned and generatePost returns
LoopFrom(p, i) ==
  LET last == (IF p.variantCount < Len(variantApproaches)
                 THEN p.variantCount ELSE Len(variantApproaches)) - 1
      left == {k \in i..last : variantApproaches[k + 1].style # p.primaryPost.style}
  IN  IF left = {}
        THEN [pc |-> "resolved", post |-> p, postResult |-> Generated(p)]
        ELSE [ pc |-> "variantTitle",
               post |-> [p EXCEPT !.i = CHOOSE k \in left : \A l \in left : k <= l],
               postResult |-> NoObject ]

\* generatePost after the selling points: the primary post is formatted, and
\* generateABTestingVariants is called if generateVariants is set
AfterSellingPoints(p) ==
  LET q == p @@ [ primaryPost |-> [style |-> p.style, tokensUsed |-> p.totalTokens],
                  i |-> 0, variantTokens |-> 0, variants |-> <<>> ]
  IN  IF p.generateVariants
        THEN LoopFrom(q, 0)
        ELSE [pc |-> "resolved", post |-> q, postResult |-> Generated(q)]

-----------------------------------------------------------------------------
(* Vision analysis service, src/unnamed/part_009:65-154 and 161-179,       *)
(* 294-340, 470-515.  The content of an image file is held as the path it  *)
(* was read from.  Of the analysis parsed from the answer of the model     *)
(* only productType is held: the other fields are read from the parsed     *)
(* JSON in the same expression and nothing of them is thrown.              *)

T_Dot == <<".">>
T_png == <<"p", "n", "g">>
T_webp == <<"w", "e", "b", "p">>
T_gif == <<"g", "i", "f">>

\* text.split('.').pop(): what follows the last '.', the text itself if it has none
LastSegment(text) ==
  LET dots == {i \in DOMAIN text : <<text[i]>> = T_Dot}
  IN  IF dots = {} THEN text
      ELSE SubSeq(text, (CHOOSE i \in dots : \A j \in dots : j <= i) + 1, Len(text))

\* the mime type encodeImage derives from the extension
MimeType(imagePath) ==
  LET extension == LastSegment(toLowerCase(imagePath))
  IN  IF extension = T_png THEN "image/png"
      ELSE IF extension = T_webp THEN "image/webp"
      ELSE IF extension = T_gif THEN "image/gif"
      ELSE "image/jpeg"

\* encodeImage once fs.readFile has settled with `file`: [bytes |-> ...] when
\* the file was read, [error |-> thrown] when the read failed; the outcome is
\* [value |-> data URL] or [thrown |-> the Error encodeImage throws]
encodeImage(imagePath, file) ==
  IF Has(file, "error")
    THEN [ thrown |->
             [ isError |-> TRUE,
               message |-> "Failed to read image file: "
                             \o (IF file.error.isError THEN file.error.message
                                 ELSE "Unknown error") ] ]
  ELSE [ value |-> [mimeType |-> MimeType(imagePath), base64 |-> file.bytes] ]

\* parseAnalysisResponse: content is [json |-> FALSE] when JSON.parse throws,
\* else the parsed object (json |-> TRUE and its properties)
parseAnalysisResponse(content) ==
  IF ~content.json
    THEN [ thrown |->
             [ isError |-> TRUE,
               message |-> "Failed to parse AI response: " \o content.message ] ]
  ELSE [ value |->
           [ productType |-> IF Has(content, "productType") /\ content.productType # <<>>
                               THEN content.productType ELSE T_UnknownProduct ] ]

\* handleError of the analysis service: as that of the post generation
\* service, with its own codes and with the details of the failure
analysisHandleError(error) ==
  [ success |-> FALSE,
    error |->
      IF Has(error, "status") /\ Has(error, "code")
        THEN [ code |-> IF error.code # "" THEN error.code ELSE "OPENAI_API_ERROR",
               message |-> error.message,
               details |-> [status |-> error.status],
               retryable |-> error.status = <<429>>
                               \/ (IF error.status = <<>> THEN 0 ELSE error.status[1]) >= 500 ]
      ELSE IF error.isError
        THEN [ code |-> "ANALYSIS_ERROR", message |-> error.message,
               details |-> error, retryable |-> FALSE ]
      ELSE [ code |-> "UNKNOWN_ERROR",
             message |-> "An unknown error occurred during analysis",
             details |-> error, retryable |-> FALSE ] ]

\* analyzeProduct from the response of the vision model to its return: the
\* request failed ([error |-> thrown]), or answered with a content (a
\* sequence of zero or one) and a usage
AfterResponse(response) ==
  IF Has(response, "error") THEN analysisHandleError(response.error)
  ELSE IF response.content = <<>>
    THEN analysisHandleError([ isError |-> TRUE,
                               message |-> "No response content from OpenAI" ])
  ELSE LET parsed == parseAnalysisResponse(response.content[1])
       IN  IF Has(parsed, "thrown") THEN analysisHandleError(parsed.thrown)
           ELSE [success |-> TRUE, data |-> parsed.value] @@
                (IF response.usage = <<>> THEN NoObject
                 ELSE [tokensUsed |-> response.usage[1]])

\* the destructuring of options at the start of analyzeProduct, which is
\* outside its try: options that are null make the call reject
Destructured(opts) ==
  IF Has(opts, "isNull")
    THEN [ thrown |->
             [ isError |-> TRUE,
               message |-> "Cannot destructure property 'includeOCR' of 'options' as it is null." ] ]
  ELSE [ value |-> [detailedAnalysis |-> IF Has(opts, "detailedAnalysis")
                                           THEN opts.detailedAnalysis ELSE TRUE] ]

\* the results in the order in which the analyses completed
Collected_InCompletionOrder(settled, order) ==
  [k \in DOMAIN order |->
     IF settled[order[k]].status = "fulfilled" THEN settled[order[k]].value
     ELSE analysisHandleError(settled[order[k]].reason)]

\* results.map(...) over the outcome of Promise.allSettled, which lists the
\* outcomes in the order of the promises it was given, whatever the order in
\* which they settled
Collected(settled, order) ==
  [i \in DOMAIN settled |->
     IF settled[i].status = "fulfilled" THEN settled[i].value
     ELSE analysisHandleError(settled[i].reason)]

-----------------------------------------------------------------------------
(* insertEmojis, src/unnamed/part_006:355-392.  An emoji is one character   *)
(* of a text, held as a string that names it.                               *)

\* the characters of [.!?]
IsSentenceEnd(c) == c \in {".", "!", "?"}

\* the place of the last character of the run of characters satisfying the
\* test that starts at place p of text
RECURSIVE RunEnd(_, _, _)
RunEnd(text, p, isEnd) ==
  IF p + 1 <= Len(text) /\ (IF isEnd THEN IsSentenceEnd(text[p + 1])
                                     ELSE IsWhiteSpace(text[p + 1]))
    THEN RunEnd(text, p + 1, isEnd)
    ELSE p

\* the place where the match of /[.!?]+\s+/ that starts at place p ends, 0 if
\* there is no match at p: both runs are greedy
SeparatorEnd(text, p) ==
  IF ~IsSentenceEnd(text[p]) THEN 0
  ELSE LET q == RunEnd(text, p, TRUE)
       IN  IF q + 1 <= Len(text) /\ IsWhiteSpace(text[q + 1])
             THEN RunEnd(text, q + 1, FALSE)
             ELSE 0

\* text.split(/([.!?]+\s+)/) from place p on, the segment in hand starting at
\* place start: the pieces between the separators, and the separators
\* themselves as the capture group gives them
RECURSIVE SplitSentences(_, _, _)
SplitSentences(text, p, start) ==
  IF p > Len(text) THEN <<SubSeq(text, start, Len(text))>>
  ELSE LET q == SeparatorEnd(text, p)
       IN  IF q = 0 THEN SplitSentences(text, p + 1, start)
           ELSE <<SubSeq(text, start, p - 1), SubSeq(text, p, q)>>
                  \o SplitSentences(text, q + 1, q + 1)

\* text.trim()
RECURSIVE TrimEnd(_)
TrimEnd(text) ==
  IF text # <<>> /\ IsWhiteSpace(text[Len(text)])
    THEN TrimEnd(SubSeq(text, 1, Len(text) - 1)) ELSE text

trim(text) == TrimEnd(SkipWhiteSpace(text))

\* emojis.join(' ')
RECURSIVE JoinEmojis(_)
JoinEmojis(emojis) ==
  IF emojis = <<>> THEN <<>>
  ELSE IF Len(emojis) = 1 THEN <<emojis[1]>>
  ELSE <<emojis[1], " ">> \o JoinEmojis(Tail(emojis))

\* index % emojiInterval === 0: the remainder by 0 is NaN, which is not 0
IsMultiple(index, emojiInterval) == emojiInterval # 0 /\ index % emojiInterval = 0

\* the forEach of the 'distributed' case from the sentence at index on (the
\* indexes counted from 0), emojiIndex emojis being placed already
RECURSIVE Distribute(_, _, _, _, _)
Distribute(sentences, emojis, emojiInterval, index, emojiIndex) ==
  IF index >= Len(sentences) THEN <<>>
  ELSE IF emojiIndex < Len(emojis) /\ index > 0 /\ IsMultiple(index, emojiInterval)
    THEN sentences[index + 1] \o <<" ", emojis[emojiIndex + 1]>>
           \o Distribute(sentences, emojis, emojiInterval, index + 1, emojiIndex + 1)
  ELSE sentences[index + 1]
         \o Distribute(sentences, emojis, emojiInterval, index + 1, emojiIndex)

\* insertEmojis; strategy is a sequence of zero or one: its default is
\* 'distributed'
insertEmojis(text, emojis, strategy) ==
  LET chosen == IF strategy = <<>> THEN "distributed" ELSE strategy[1]
  IN  IF Len(emojis) = 0 THEN text
      ELSE IF chosen = "start" THEN JoinEmojis(emojis) \o <<" ">> \o text
      ELSE IF chosen = "end" THEN text \o <<" ">> \o JoinEmojis(emojis)
      ELSE LET sentences == SplitSentences(text, 1, 1)
               emojiInterval == Len(sentences) \div Len(emojis)
           IN  trim(Distribute(sentences, emojis, emojiInterval, 0, 0))

-----------------------------------------------------------------------------
(* File validation, src/src/utils/fileValidation.ts, and the filter of the  *)
(* upload middleware, src/src/middleware/fileUpload.ts                       *)

ALLOWED_MIME_TYPES == {"image/jpeg", "image/png", "image/webp"}

\* 10 * 1024 * 1024
MAX_FILE_SIZE == 10485760

ALLOWED_EXTENSIONS ==
  << <<".", "j", "p", "g">>, <<".", "j", "p", "e", "g">>,
     <<".", "p", "n", "g">>, <<".", "w", "e", "b", "p">> >>

\* text.endsWith(suffix)
endsWith(text, suffix) ==
  /\ Len(suffix) <= Len(text)
  /\ SubSeq(text, Len(text) - Len(suffix) + 1, Len(text)) = suffix

isAllowedFileType(mimetype) == mimetype \in ALLOWED_MIME_TYPES

isValidFileSize(size) == size > 0 /\ size <= MAX_FILE_SIZE

hasAllowedExtension(originalname) ==
  LET lowerFilename == toLowerCase(originalname)
  IN  \E i \in DOMAIN ALLOWED_EXTENSIONS : endsWith(lowerFilename, ALLOWED_EXTENSIONS[i])

validateFile(file) ==
  IF ~isAllowedFileType(file.mimetype)
    THEN [ valid |-> FALSE,
           error |-> "Invalid file type. Allowed types: image/jpeg, image/png, image/webp" ]
  ELSE IF ~isValidFileSize(file.size)
    THEN [ valid |-> FALSE,
           error |-> "File size must be between 1 byte and 10MB" ]
  ELSE IF ~hasAllowedExtension(file.originalname)
    THEN [ valid |-> FALSE,
           error |-> "Invalid file extension. Allowed extensions: .jpg, .jpeg, .png, .webp" ]
  ELSE [valid |-> TRUE]

\* the error fileFilter hands to its callback: a sequence of zero or one
fileFilter(file) ==
  IF ~isAllowedFileType(file.mimetype)
    THEN <<"Invalid file type. Only JPEG, PNG, and WebP images are allowed.">>
  ELSE IF ~hasAllowedExtension(file.originalname)
    THEN <<"Invalid file extension. Only .jpg, .jpeg, .png, and .webp files are allowed.">>
  ELSE <<>>

\* path.extname(name): from the last dot on, nothing when there is no dot or
\* the only dot is the first character
extname(name) ==
  LET dots == {i \in DOMAIN name : name[i] = "."}
  IN  IF dots = {} \/ dots = {1} THEN <<>>
      ELSE LET last == CHOOSE i \in dots : \A j \in dots : j <= i
           IN  SubSeq(name, last, Len(name))

\* Date.now() and the random bytes of a file name, as of one upload
UniqueSuffix == <<"1", "-", "a">>

\* the name diskStorage gives the file
filename(file) == UniqueSuffix \o extname(file.originalname)

-----------------------------------------------------------------------------
(* cleanupTempFile, src/src/services/storageService.ts:227-234 *)

\* what unlink(filePath) settles with on the files of the disk: the file is
\* removed, or the call fails (the file is gone, or may not be removed)
unlink(files, filePath) ==
  IF filePath \in files
    THEN { [files |-> files \ {filePath}, error |-> <<>>],
           [files |-> files, error |-> <<"EPERM: operation not permitted">>] }
    ELSE { [files |-> files, error |-> <<"ENOENT: no such file or directory">>] }

\* cleanupTempFile letting the failure of unlink through
cleanupTempFile_Rethrows(unlinked) == [thrown |-> unlinked.error]

\* cleanupTempFile once unlink has settled: what it throws, a sequence of
\* zero or one; the failure of unlink is logged in the catch
cleanupTempFile(unlinked) == [thrown |-> <<>>]

-----------------------------------------------------------------------------
(* POST /analyze, src/unnamed/part_008:57-219 *)

\* res.status(status).json(body)
Answer(status, body) == [status |-> status, body |-> body]

\* req.body.userDetails is truthy: a field of the form that is not the
\* empty string, or an object made of fields named userDetails[...]
UserDetailsGiven(body) ==
  /\ Has(body, "userDetails")
  /\ ~(body.userDetails.type = "string" /\ body.userDetails.text = "")

\* JSON.parse(text) of a field of the form: the texts of the inputs are named
\* by what they hold: no JSON, the JSON of null, or the JSON of an object,
\* whose properties are fields and whose numberFields are the names of the
\* properties holding a number
JSONparse(field) ==
  IF field.text = "json"
    THEN [value |-> field.json]
    ELSE [thrown |-> "Unexpected token"]

\* the details as validateUserInput reads them: of a text its length; a
\* number has no length, so that its test `length > max` fails as that of a
\* missing property does
LengthFields == {"brand", "model", "productType", "description", "customTitle"}

ValidationView(fields) ==
  [ k \in DOMAIN fields |->
      IF k \in LengthFields THEN Len(fields[k]) ELSE fields[k] ]

\* typeof req.body.userDetails === 'string' ? JSON.parse(...) : ..., then
\* validateUserInput(userDetails): the inner try of the handler
ParsedAndValidated(given, year) ==
  LET parsed == IF given.type = "string" THEN JSONparse(given)
                ELSE [value |-> [type |-> "object", fields |-> given.fields,
                                 numberFields |-> {}]]
  IN  IF Has(parsed, "thrown")
        THEN [trace |-> <<"JSON.parse">>, thrown |-> TRUE]
      ELSE IF parsed.value.type = "null"
        THEN [ trace |-> <<"JSON.parse", "validateUserInput">>, thrown |-> TRUE ]
      ELSE [ trace |-> (IF given.type = "string" THEN <<"JSON.parse">> ELSE <<>>)
                         \o <<"validateUserInput">>,
             thrown |-> FALSE,
             userDetails |-> parsed.value,
             userValidation |-> validateUserInput(ValidationView(parsed.value.fields), year) ]

\* the handler with the test of the service before that of the user details
BeforeFirstAwait_ServiceFirst(req, service, year) ==
  IF ~Has(req, "file")
    THEN [ trace |-> <<>>, await |-> "none",
           answer |-> Answer(400, [success |-> FALSE, error |-> "No image file uploaded"]) ]
  ELSE LET fileValidation == validateFile(req.file)
       IN  IF ~fileValidation.valid
             THEN [ trace |-> <<"validateFile">>, await |-> "cleanupTempFile",
                    answer |-> Answer(400, [success |-> FALSE, error |-> fileValidation.error]) ]
           ELSE IF ~service
             THEN [ trace |-> <<"validateFile">>, await |-> "cleanupTempFile",
                    answer |-> Answer(503,
                      [ success |-> FALSE,
                        error |-> "AI Vision Service is not available. Please configure OPENAI_API_KEY." ]) ]
           ELSE [ trace |-> <<"validateFile">>, await |-> "analyzeProduct",
                  userDetails |-> [type |-> "object", fields |-> NoObject,
                                   numberFields |-> {}] ]

\* the handler from its start to its first await (lines 98-167): what it
\* called, what it waits for, and the answer it sends (at once, or after the
\* cleanup it waits for)
BeforeFirstAwait(req, service, year) ==
  IF ~Has(req, "file")
    THEN [ trace |-> <<>>, await |-> "none",
           answer |-> Answer(400, [success |-> FALSE, error |-> "No image file uploaded"]) ]
  ELSE LET fileValidation == validateFile(req.file)
           checked == IF UserDetailsGiven(req.body)
                        THEN ParsedAndValidated(req.body.userDetails, year)
                        ELSE [ trace |-> <<>>, thrown |-> FALSE,
                               userDetails |-> [type |-> "object", fields |-> NoObject,
                                                numberFields |-> {}],
                               userValidation |-> [valid |-> TRUE, errors |-> <<>>] ]
       IN  IF ~fileValidation.valid
             THEN [ trace |-> <<"validateFile">>, await |-> "cleanupTempFile",
                    answer |-> Answer(400, [success |-> FALSE, error |-> fileValidation.error]) ]
           ELSE IF checked.thrown
             THEN [ trace |-> <<"validateFile">> \o checked.trace,
                    await |-> "cleanupTempFile",
                    answer |-> Answer(400, [ success |-> FALSE,
                                             error |-> "Invalid JSON format for userDetails" ]) ]
           ELSE IF ~checked.userValidation.valid
             THEN [ trace |-> <<"validateFile">> \o checked.trace,
                    await |-> "cleanupTempFile",
                    answer |-> Answer(400, [ success |-> FALSE,
                                             error |-> "Invalid user details",
                                             validationErrors |-> checked.userValidation.errors ]) ]
           ELSE IF ~service
             THEN [ trace |-> <<"validateFile">> \o checked.trace,
                    await |-> "cleanupTempFile",
                    answer |-> Answer(503,
                      [ success |-> FALSE,
                        error |-> "AI Vision Service is not available. Please configure OPENAI_API_KEY." ]) ]
           ELSE [ trace |-> <<"validateFile">> \o checked.trace,
                  await |-> "analyzeProduct",
                  userDetails |-> checked.userDetails ]

\* mergeProductData throws on these details: `...(userDetails.customKeywords
\* || [])` spreads a number, which is not iterable
MergeThrows(parsedDetails) == "customKeywords" \in parsedDetails.numberFields

\* the answer of the outer catch to an error of this message
InternalError(message) ==
  Answer(500, [ success |-> FALSE,
                error |-> "Internal server error during analysis",
                details |-> message ])

\* the handler after the cleanup that follows the analysis (lines 180-204):
\* what it called, and the answer it sends or that it threw
AfterAnalysis(analysisResult, parsedDetails) ==
  IF ~analysisResult.success \/ ~Has(analysisResult, "data")
    THEN [ trace |-> <<>>, thrown |-> FALSE,
           answer |-> Answer(500, [ success |-> FALSE,
                                    error |-> "AI analysis failed",
                                    details |-> analysisResult.error ]) ]
  ELSE IF MergeThrows(parsedDetails)
    THEN [ trace |-> <<"mergeProductData">>, thrown |-> TRUE,
           message |-> "userDetails.customKeywords is not iterable" ]
  ELSE [ trace |-> <<"mergeProductData">>, thrown |-> FALSE,
         answer |-> Answer(200,
           [ success |-> TRUE,
             message |-> "Product analyzed successfully",
             data |-> mergeProductData(analysisResult.data, parsedDetails.fields,
                                       [ prioritizeUser |-> TRUE,
                                         validateCompleteness |-> TRUE,
                                         enhanceDescription |-> TRUE ]) ]
           @@ (IF Has(analysisResult, "tokensUsed")
                 THEN [tokensUsed |-> analysisResult.tokensUsed] ELSE NoObject)) ]

-----------------------------------------------------------------------------
(* Inputs of the merger *)

\* the objects with property k drawn from S, and the object without it
Optional(k, S) == {NoObject} \cup {k :> v : v \in S}

\* sampleAIAnalysis of tests/descriptionMerger.test.ts, with shorter texts
SampleAnalysis ==
  [ productType |-> T_iPhone,
    category |-> [primary |-> T_Electronics, secondary |-> T_Phones,
                  tertiary |-> T_iPhone, confidence |-> "high"],
    brand |-> [name |-> T_Apple, confidence |-> "high", verified |-> TRUE],
    condition |-> "good",
    conditionConfidence |-> "medium",
    attributes |-> [color |-> <<T_Blue>>, model |-> T_iPhone, size |-> T_Small],
    extractedText |-> <<[text |-> T_iPhone, location |-> "product", confidence |-> "high"]>>,
    features |-> <<T_5G>>,
    visualQuality |-> [imageQuality |-> "good", lighting |-> "good",
                       clarity |-> "sharp", background |-> "clean"],
    description |-> T_AiText,
    suggestedTitle |-> T_AiTitle,
    suggestedKeywords |-> <<T_iPhone, T_Apple>>,
    overallConfidence |-> "high" ]

UnknownCategory == [primary |-> T_Unknown, confidence |-> "low"]

\* a brand the AI guessed without verifying it
GuessedBrand == [name |-> T_Apple, confidence |-> "low", verified |-> FALSE]

\* the three options, each missing, true or false
MergeOptionSets ==
  { p @@ v @@ e : p \in Optional("prioritizeUser", BOOLEAN),
                  v \in Optional("validateCompleteness", BOOLEAN),
                  e \in Optional("enhanceDescription", BOOLEAN) }

\* prioritizeUser missing, true or false; the other two missing or false
FieldOptionSets ==
  { p @@ v @@ e : p \in Optional("prioritizeUser", BOOLEAN),
                  v \in Optional("validateCompleteness", {FALSE}),
                  e \in Optional("enhanceDescription", {FALSE}) }

\* analyses that differ in the fields merged one by one
FieldAnalyses ==
  { Spread(Without(SampleAnalysis, "brand"),
           b @@ [ productType |-> pt, category |-> cat, condition |-> co,
                  conditionConfidence |-> cc, suggestedTitle |-> ti ])
      : pt \in {<<>>, T_UnknownProduct, T_iPhone},
        cat \in {SampleAnalysis.category, UnknownCategory},
        b \in Optional("brand", {GuessedBrand}),
        co \in {"good", "unknown"},
        cc \in {"medium", "low"},
        ti \in {<<>>, T_AiTitle} }

FieldUserDetails ==
  { pt @@ b @@ co @@ de @@ ti @@ c
      : pt \in Optional("productType", {<<>>, T_iPhonePro}),
        b \in Optional("brand", {T_Samsung}),
        co \in Optional("condition", {"excellent", "unknown"}),
        de \in Optional("description", {T_UserText}),
        ti \in Optional("customTitle", {T_UserTitle}),
        c \in Optional("color", {<<T_Black>>}) }

\* more analyses, merged with no user details at all
WideAnalyses ==
  { Spread(a, [attributes |-> at, suggestedKeywords |-> kw, description |-> de])
      : a \in FieldAnalyses \cup {SampleAnalysis},
        at \in { NoObject,
                 [color |-> <<>>],
                 SampleAnalysis.attributes,
                 [color |-> <<T_Blue, T_Silver>>, material |-> <<T_Glass>>,
                  style |-> T_Modern, year |-> T_Y2019, weight |-> T_200g,
                  dimensions |-> [width |-> T_Small],
                  customAttributes |-> [screenSize |-> T_Small]] },
        kw \in {<<>>, <<T_5G, T_5G>>},
        de \in {<<>>, T_AiText} }

\* analyses that differ in their attributes
AttributeAnalyses ==
  { Spread(SampleAnalysis, [attributes |-> c @@ m @@ s @@ mo @@ y @@ cu @@ rest])
      : c \in Optional("color", {<<>>, <<T_Blue>>}),
        m \in Optional("material", {<<T_Glass>>}),
        s \in Optional("size", {T_Small}),
        mo \in Optional("model", {T_iPhone}),
        y \in Optional("year", {T_Y2019}),
        cu \in Optional("customAttributes", {[screenSize |-> T_Small]}),
        rest \in { NoObject,
                   [style |-> T_Modern, weight |-> T_200g,
                    dimensions |-> [width |-> T_Small]] } }

AttributeUserDetails ==
  { c @@ m @@ s @@ y @@ mo @@ d
      : c \in Optional("color", {<<>>, <<T_Black, T_Silver>>}),
        m \in Optional("material", {<<T_Glass, T_Silver>>}),
        s \in Optional("size", {<<>>, T_Large}),
        y \in Optional("year", {T_Y2021}),
        mo \in Optional("model", {T_A2482}),
        d \in Optional("categorySpecificDetails",
                       { NoObject,
                         [screenSize |-> T_Large],
                         [batteryCapacity |-> T_Large] }) }

\* the longest keyword list of an input
MaxKeywords == 3

Keywords == {T_iPhone, T_Apple, T_5G}

KeywordLists == UNION {[1..n -> Keywords] : n \in 0..MaxKeywords}

KeywordAnalyses ==
  { Spread(SampleAnalysis, [suggestedKeywords |-> kw]) : kw \in KeywordLists }

KeywordUserDetails == Optional("customKeywords", KeywordLists)

PrioritizeOptionSets == Optional("prioritizeUser", {FALSE})

-----------------------------------------------------------------------------
(* Inputs of validateUserInput *)

\* the decimal text of a year of four digits
YearText(n) ==
  << Digits[((n \div 1000) % 10) + 1], Digits[((n \div 100) % 10) + 1],
     Digits[((n \div 10) % 10) + 1], Digits[(n % 10) + 1] >>

T_Y1799 == <<"1", "7", "9", "9">>
T_Y1800 == <<"1", "8", "0", "0">>
T_Y99999 == <<"9", "9", "9", "9", "9">>
T_abc == <<"a", "b", "c">>
T_Y2021abc == <<"2", "0", "2", "1", "a", "b", "c">>
T_SpaceY1990 == <<" ", "1", "9", "9", "0">>
T_MinusY2021 == <<"-", "2", "0", "2", "1">>
T_PlusY2021 == <<"+", "2", "0", "2", "1">>
T_Y1799dot9 == <<"1", "7", "9", "9", ".", "9">>
T_Y1800dot5 == <<"1", "8", "0", "0", ".", "5">>

\* the years the clock may show
CurrentYears == {2025, 2026}

YearTexts(year) ==
  { <<>>, T_Y1799, T_Y1800, T_Y2021, YearText(year + 1), YearText(year + 2),
    T_Y99999, T_abc, T_Y2021abc, T_SpaceY1990, T_MinusY2021, T_PlusY2021,
    T_Y1799dot9, T_Y1800dot5 }

\* a list of n entries
ListOf(n, x) == [i \in 1..n |-> x]

ValidationDetails(year) ==
  { co @@ b @@ mo @@ pt @@ de @@ ti @@ y @@ c @@ m @@ kw
      : co \in Optional("condition", {"", "excellent", "invalid_condition"}),
        b \in Optional("brand", {0, MaxBrandLength, MaxBrandLength + 1}),
        mo \in Optional("model", {MaxModelLength + 1}),
        pt \in Optional("productType", {MaxProductTypeLength, MaxProductTypeLength + 1}),
        de \in Optional("description", {MaxDescriptionLength, MaxDescriptionLength + 1}),
        ti \in Optional("customTitle", {MaxCustomTitleLength + 1}),
        y \in Optional("year", YearTexts(year)),
        c \in Optional("color", {ListOf(MaxColors, T_Blue), ListOf(MaxColors + 1, T_Blue)}),
        m \in Optional("material", {ListOf(MaxMaterials + 1, T_Glass)}),
        kw \in Optional("customKeywords",
                        { ListOf(MaxCustomKeywords, T_5G),
                          ListOf(MaxCustomKeywords + 1, T_5G) }) }

-----------------------------------------------------------------------------
(* Inputs of the confidence scorer *)

T_GenericChair == <<"G", "e", "n", "e", "r", "i", "c", " ", "C", "h", "a", "i", "r">>
T_Label == <<"A", "P", "P", "L", "E", " ", "E", "l", "e", "c", "t", "r", "o", "n", "i", "c", "s">>
T_Scratch == <<"S", "c", "r", "a", "t", "c", "h">>

ImageQualities == {"excellent", "good", "fair", "poor"}
Lightings == {"good", "fair", "poor"}
Clarities == {"sharp", "slightly_blurry", "blurry"}
Backgrounds == {"clean", "cluttered", "distracting"}

\* every attribute the scorer counts
FullAttributes ==
  [ color |-> <<T_Blue>>, material |-> <<T_Glass>>, size |-> T_Small,
    style |-> T_Modern, model |-> T_iPhone, year |-> T_Y2019,
    dimensions |-> [width |-> T_Small], weight |-> T_200g ]

\* analyses that differ in everything the scorers read, the three lesser
\* visual qualities moving together
ScoredAnalyses ==
  { Spread(Without(SampleAnalysis, "brand"),
           b @@ d @@
           [ productType |-> pt,
             category |-> st @@ [primary |-> T_Electronics, confidence |-> cf],
             condition |-> co, conditionConfidence |-> cc,
             attributes |-> at, extractedText |-> et,
             visualQuality |-> [imageQuality |-> iq, lighting |-> rest[1],
                                clarity |-> rest[2], background |-> rest[3]] ])
      : pt \in {T_iPhone, T_UnknownProduct, T_GenericChair},
        cf \in ConfidenceLevel,
        st \in {NoObject, [secondary |-> T_Phones, tertiary |-> T_iPhone]},
        b \in Optional("brand", { SampleAnalysis.brand, GuessedBrand,
                                  [name |-> T_Samsung, confidence |-> "medium",
                                   verified |-> TRUE] }),
        co \in {"good", "unknown"},
        cc \in ConfidenceLevel,
        at \in {NoObject, SampleAnalysis.attributes, FullAttributes},
        et \in { <<>>,
                 <<[text |-> T_Label, confidence |-> "high"]>>,
                 <<[text |-> T_5G, location |-> "tag", confidence |-> "low"]>> },
        iq \in ImageQualities,
        rest \in { <<"good", "sharp", "clean">>,
                   <<"fair", "slightly_blurry", "cluttered">>,
                   <<"poor", "blurry", "distracting">> },
        d \in Optional("defects", {[scratches |-> TRUE, description |-> T_Scratch]}) }

\* the sample analysis under every visual quality
VisualQualityAnalyses ==
  { Spread(SampleAnalysis,
           [visualQuality |-> [imageQuality |-> iq, lighting |-> li,
                               clarity |-> cl, background |-> bg]])
      : iq \in ImageQualities, li \in Lightings, cl \in Clarities, bg \in Backgrounds }

-----------------------------------------------------------------------------
(* Inputs of the enrichment service *)

\* 23 characters
T_LongText ==
  <<"A", " ", "p", "h", "o", "n", "e", " ", "i", "n", " ", "a", " ", "b",
    "l", "u", "e", " ", "c", "a", "s", "e", ".">>
\* 20 characters
T_Text20 ==
  <<"A", " ", "p", "h", "o", "n", "e", " ", "i", "n", " ", "b", "l", "u",
    "e", " ", "c", "a", "s", "e">>
\* a positive keyword in upper case
T_Mint ==
  <<"M", "I", "N", "T", " ", "c", "o", "n", "d", "i", "t", "i", "o", "n">>
\* 'new' inside another word
T_Renewed ==
  <<"r", "e", "n", "e", "w", "e", "d">>
\* a positive keyword twice
T_NewNew ==
  <<"n", "e", "w", ",", " ", "n", "e", "w">>
\* 'chip' and 'crack' inside other words
T_Chipped ==
  <<"c", "h", "i", "p", "p", "e", "d", ",", " ", "c", "r", "a", "c", "k",
    "e", "d">>
\* five positive keywords
T_Praise ==
  <<"e", "x", "c", "e", "l", "l", "e", "n", "t", " ", "p", "e", "r", "f",
    "e", "c", "t", " ", "p", "r", "i", "s", "t", "i", "n", "e", " ", "m",
    "i", "n", "t", " ", "f", "l", "a", "w", "l", "e", "s", "s">>
\* six negative keywords
T_Faults ==
  <<"d", "a", "m", "a", "g", "e", "d", " ", "b", "r", "o", "k", "e", "n",
    " ", "w", "o", "r", "n", " ", "d", "e", "n", "t", "e", "d", " ", "m",
    "i", "s", "s", "i", "n", "g", " ", "d", "e", "f", "e", "c", "t", "s">>
\* a positive and a negative keyword
T_MintWorn ==
  <<"m", "i", "n", "t", " ", "b", "u", "t", " ", "w", "o", "r", "n">>
\* a UPC, 12 digits
T_Upc1 ==
  <<"0", "1", "2", "3", "4", "5", "6", "7", "8", "9", "0", "5">>
\* another UPC
T_Upc2 ==
  <<"9", "8", "7", "6", "5", "4", "3", "2", "1", "0", "9", "8">>
\* an EAN, 13 digits
T_Ean1 ==
  <<"4", "0", "0", "6", "3", "8", "1", "3", "3", "3", "9", "3", "1">>
\* 11 digits
T_Digits11 ==
  <<"0", "1", "2", "3", "4", "5", "6", "7", "8", "9", "0">>
\* 14 digits
T_Digits14 ==
  <<"0", "1", "2", "3", "4", "5", "6", "7", "8", "9", "0", "5", "1", "2">>
\* the first UPC between other words
T_UpcLabel ==
  <<"U", "P", "C", " ", "0", "1", "2", "3", "4", "5", "6", "7", "8", "9",
    "0", "5", " ", "A", "2", "4", "8", "2">>
\* the first UPC glued to letters
T_UpcGlued ==
  <<"S", "N", "0", "1", "2", "3", "4", "5", "6", "7", "8", "9", "0", "5">>
\* the second UPC, then the first
T_TwoCodes ==
  <<"9", "8", "7", "6", "5", "4", "3", "2", "1", "0", "9", "8", " ", "/",
    " ", "0", "1", "2", "3", "4", "5", "6", "7", "8", "9", "0", "5">>
T_Galaxy ==
  <<"G", "a", "l", "a", "x", "y">>
T_ProMax ==
  <<"P", "r", "o", ":", "M", "a", "x">>
T_ApplePro ==
  <<"A", "p", "p", "l", "e", ":", "P", "r", "o">>
T_Max ==
  <<"M", "a", "x">>


\* the flags of EnrichmentOptions, each missing, true or false
EnrichmentOptionSets ==
  { d @@ s @@ c : d \in Optional("enableDatabaseLookup", BOOLEAN),
                  s \in Optional("enableSentimentAnalysis", BOOLEAN),
                  c \in Optional("enableCompletenessCheck", BOOLEAN) }

\* defects records: none, one flag, every flag and the worst severity, a flag
\* that is false, a severity without a flag
DefectsRecords ==
  Optional("defects",
    { [scratches |-> TRUE, description |-> T_Scratch],
      [scratches |-> TRUE, dents |-> TRUE, stains |-> TRUE, tears |-> TRUE,
       missingParts |-> TRUE, wear |-> TRUE, severity |-> "severe"],
      [scratches |-> TRUE, dents |-> FALSE, severity |-> "minor"],
      [severity |-> "moderate"] })

\* analyses that differ in everything analyzeSentiment reads
SentimentAnalyses ==
  { Spread(SampleAnalysis, d @@ [condition |-> co, description |-> de])
      : co \in ProductCondition,
        d \in DefectsRecords,
        de \in {T_AiText, T_Mint, T_Renewed, T_NewNew, T_Chipped, T_Praise, T_Faults,
                T_MintWorn} }

\* analyses in which each of the twelve things checkCompleteness counts is
\* there or is not
CompletenessAnalyses ==
  { Spread(Without(SampleAnalysis, "brand"),
           b @@
           [ productType |-> pt,
             category |-> [primary |-> ca, confidence |-> "medium"],
             condition |-> co,
             description |-> de,
             suggestedTitle |-> ti,
             attributes |-> c @@ m @@ sz @@ ma,
             features |-> fe,
             visualQuality |-> [imageQuality |-> iq, lighting |-> "good",
                                clarity |-> "sharp", background |-> "clean"] ])
      : pt \in {T_iPhone, T_UnknownProduct},
        ca \in {T_Electronics, T_Unknown},
        co \in {"good", "unknown"},
        de \in {T_LongText, T_Text20},
        ti \in {T_AiTitle, <<>>},
        b \in Optional("brand", {SampleAnalysis.brand}),
        c \in Optional("color", {<<T_Blue>>}),
        m \in Optional("model", {T_A2482}),
        sz \in Optional("size", {T_Small}),
        ma \in Optional("material", {<<T_Glass>>}),
        fe \in {<<>>, <<T_5G>>},
        iq \in {"good", "poor"} }

\* the other ways in which a field is not there, the other image qualities,
\* and an image with no text in it
PlaceholderAnalyses ==
  { Spread(SampleAnalysis,
           [ productType |-> pt,
             description |-> T_LongText,
             suggestedTitle |-> ti,
             brand |-> [name |-> bn, confidence |-> "low", verified |-> FALSE],
             attributes |-> at,
             extractedText |-> et,
             visualQuality |-> [imageQuality |-> iq, lighting |-> "good",
                                clarity |-> "sharp", background |-> "clean"] ])
      : pt \in {T_unknown, T_Unknown, <<>>, T_GenericChair},
        et \in {SampleAnalysis.extractedText, <<>>},
        ti \in {T_UnknownProduct, T_unknown, T_AiTitle},
        bn \in {<<>>, T_Apple},
        at \in { [color |-> <<>>, model |-> <<>>, size |-> <<>>, material |-> <<>>],
                 FullAttributes },
        iq \in {"excellent", "fair"} }

\* visualQuality.recommendations: missing, empty, one message twice, and the
\* messages the service and the scorer write themselves
ImageRecommendations ==
  Optional("recommendations",
    { <<>>,
      <<"Use a tripod", "Use a tripod">>,
      <<"Image quality is poor - may affect analysis accuracy",
        "Upload higher quality images for better analysis accuracy">> })

\* analyses for validateEnrichedProduct: scores on both sides of every
\* minimum, a condition that is known or not, an image that is poor or not
ValidatedAnalyses ==
  { Spread(Without(SampleAnalysis, "brand"),
           b @@
           [ productType |-> pt,
             condition |-> co, conditionConfidence |-> cc,
             attributes |-> at,
             description |-> de,
             visualQuality |-> re @@ [imageQuality |-> iq, lighting |-> rest[1],
                                      clarity |-> rest[2], background |-> rest[3]] ])
      : pt \in {T_iPhone, T_UnknownProduct},
        b \in Optional("brand", {SampleAnalysis.brand}),
        co \in {"good", "unknown"},
        cc \in {"high", "low"},
        at \in {NoObject, FullAttributes},
        de \in {T_AiText, T_LongText},
        iq \in {"good", "poor"},
        rest \in { <<"good", "sharp", "clean">>, <<"poor", "blurry", "distracting">> },
        re \in ImageRecommendations }

\* the argument minConfidence: not given, and given
MinConfidences == {<<>>, <<0>>, <<60>>, <<100>>}

\* database entries with every identifier, with none, and with texts that are
\* empty
SampleEntry ==
  [ upc |-> T_Upc1, ean |-> T_Ean1, productName |-> T_iPhonePro, brand |-> T_Apple,
    category |-> T_Phones, model |-> T_A2482,
    attributes |-> [storage |-> T_Large] ]

DatabaseEntries ==
  { SampleEntry,
    [productName |-> T_Galaxy, brand |-> T_Samsung, category |-> T_Electronics],
    [productName |-> <<>>, brand |-> <<>>, category |-> <<>>, model |-> <<>>],
    [upc |-> T_Upc2, productName |-> T_Galaxy, brand |-> <<>>,
     category |-> T_Phones, model |-> T_Galaxy] }

\* analyses for mergeWithDatabaseEntry: every label of overallConfidence on
\* analyses that score high and on analyses that score low
DatabaseAnalyses ==
  { Spread(Without(SampleAnalysis, "brand"),
           b @@
           [ productType |-> pt,
             condition |-> co,
             attributes |-> at,
             overallConfidence |-> oc,
             visualQuality |-> [imageQuality |-> iq, lighting |-> iq,
                                clarity |-> "sharp", background |-> "clean"] ])
      : pt \in {T_iPhone, T_UnknownProduct},
        b \in Optional("brand", {SampleAnalysis.brand, GuessedBrand}),
        co \in {"good", "unknown"},
        at \in { NoObject, FullAttributes,
                 [model |-> T_A2482, customAttributes |-> [storage |-> T_Small]] },
        oc \in ConfidenceLevel,
        iq \in {"good", "poor"} }

\* entries for the cache: every identifier; a UPC, brand and model; two
\* entries whose brand and model differ and spell the same key
CacheEntries ==
  { SampleEntry,
    [ upc |-> T_Upc2, productName |-> T_Galaxy, brand |-> T_Samsung,
      category |-> T_Phones, model |-> T_Galaxy ],
    [ productName |-> T_iPhonePro, brand |-> T_ApplePro, category |-> T_Phones,
      model |-> T_Max ],
    [ upc |-> T_Upc1, productName |-> T_iPhonePro, brand |-> T_Apple,
      category |-> T_Phones, model |-> T_iPhonePro ],
    [ productName |-> T_Galaxy, brand |-> T_Samsung, category |-> T_Electronics ] }

\* the sample analysis with the given brand name, model and extracted texts
LookupAnalysis(brandName, model, texts) ==
  Spread(Without(SampleAnalysis, "brand"),
         (IF brandName = <<>> THEN NoObject
          ELSE [brand |-> [name |-> brandName, confidence |-> "high", verified |-> TRUE]])
         @@ [ attributes |-> IF model = <<>> THEN NoObject ELSE [model |-> model],
              extractedText |->
                [i \in DOMAIN texts |-> [text |-> texts[i], confidence |-> "high"]] ])

\* analyses for the lookup: a UPC on a label and another brand and model; two
\* codes in one text and no brand; no code and the brand and model of an
\* entry; a brand and model that spell the key of another brand and model;
\* digits that are no token, an EAN in a second text, a cached brand and model
LookupAnalyses ==
  { LookupAnalysis(T_Samsung, T_Galaxy, <<T_UpcLabel>>),
    LookupAnalysis(<<>>, <<>>, <<T_TwoCodes>>),
    LookupAnalysis(T_Apple, T_A2482, <<T_iPhone>>),
    LookupAnalysis(T_Apple, T_ProMax, <<>>),
    LookupAnalysis(T_Samsung, T_Galaxy, <<T_UpcGlued, T_Digits14, T_Digits11, T_Ean1>>) }

\* the calls the service takes in one run
MaxCalls == 3

-----------------------------------------------------------------------------
(* Inputs of the post generation service *)

\* the greatest variantCount asked for
MaxVariantCount == 2

\* PostGenerationOptions: the style, generateVariants and variantCount, each
\* given or not
PostOptionSets ==
  { st @@ g @@ n : st \in Optional("style", {"benefit_focused", "concise"}),
                   g \in Optional("generateVariants", BOOLEAN),
                   n \in Optional("variantCount", 0..MaxVariantCount) }

\* what a rejected request throws: API errors with a status and a code (a
\* rate limit, a server error whose code is null, a bad request, a connection
\* error whose status is undefined), an Error without either, an Error with a
\* status and no code property, and a value that is no Error
ThrownValues ==
  { [isError |-> TRUE, status |-> <<429>>, code |-> "rate_limit_exceeded",
     message |-> "Rate limit exceeded"],
    [isError |-> TRUE, status |-> <<500>>, code |-> "", message |-> "Server error"],
    [isError |-> TRUE, status |-> <<400>>, code |-> "invalid_request_error",
     message |-> "Bad request"],
    [isError |-> TRUE, status |-> <<>>, code |-> "", message |-> "Connection error."],
    [isError |-> TRUE, message |-> "Network error"],
    [isError |-> TRUE, status |-> <<503>>, message |-> "Service Unavailable"],
    [isError |-> FALSE] }

\* what the text model answers a request with: a completion whose usage is
\* given or not, or a rejection
ModelResponses ==
  {[usage |-> u] : u \in {<<>>, <<3>>}} \cup {[error |-> e] : e \in ThrownValues}

-----------------------------------------------------------------------------
(* Inputs of the vision analysis service *)

MaxImages == 2

T_PhotoJpg == <<"a", ".", "j", "p", "g">>
T_PhotoPng == <<"b", ".", "P", "N", "G">>

ImagePaths == {T_PhotoJpg, T_PhotoPng}

RECURSIVE ListsUpTo(_, _)
ListsUpTo(S, n) ==
  IF n = 0 THEN {<<>>}
  ELSE LET shorter == ListsUpTo(S, n - 1)
       IN  shorter \cup {Append(l, x) : l \in {m \in shorter : Len(m) = n - 1}, x \in S}

PathLists == ListsUpTo(ImagePaths, MaxImages)

\* options left out, options that ask for a plain analysis, and null passed
\* by a caller that is not type-checked
AnalysisOptionSets == {NoObject, [detailedAnalysis |-> FALSE], [isNull |-> TRUE]}

\* what fs.readFile settles with
ReadOutcomes(imagePath) ==
  { [bytes |-> imagePath],
    [error |-> [isError |-> TRUE, message |-> "ENOENT: no such file or directory"]] }

\* the product an image shows
Depicted(bytes) == IF bytes = T_PhotoJpg THEN T_iPhone ELSE T_Galaxy

\* what the request to the vision model settles with: an answer that names
\* the product of the image, one that leaves it out and reports no usage, one
\* that is not JSON, one without content, or a failure
VisionResponses(imageData) ==
  { [content |-> <<[json |-> TRUE, productType |-> Depicted(imageData.base64)]>>,
     usage |-> <<3>>],
    [content |-> <<[json |-> TRUE]>>, usage |-> <<>>],
    [content |-> <<[json |-> FALSE, message |-> "Unexpected token"]>>, usage |-> <<3>>],
    [content |-> <<>>, usage |-> <<3>>] }
  \cup
  { [error |-> e] :
      e \in { [isError |-> TRUE, status |-> <<429>>, code |-> "rate_limit_exceeded",
               message |-> "Rate limit exceeded"],
              [isError |-> TRUE, message |-> "Network error"],
              [isError |-> FALSE] } }

-----------------------------------------------------------------------------
(* Inputs of POST /analyze *)

T_PhotoUpperJpg == <<"a", ".", "J", "P", "G">>
T_PhotoGif == <<"a", ".", "g", "i", "f">>
T_NoExtension == <<"a">>

\* the file parts a form may hold
FileParts ==
  [ fieldname : {"image", "photo"},
    mimetype : {"image/jpeg", "image/png", "image/gif"},
    size : {0, 1, MAX_FILE_SIZE, MAX_FILE_SIZE + 1},
    originalname : {T_PhotoJpg, T_PhotoUpperJpg, T_PhotoGif, T_NoExtension} ]

\* user details as objects: none, valid ones, ones with a condition or a year
\* that validateUserInput refuses
RouteUserDetails ==
  { NoObject,
    [brand |-> T_Samsung, condition |-> "excellent"],
    [customKeywords |-> <<T_5G>>],
    [condition |-> "invalid_condition"],
    [year |-> T_abc] }

\* the JSON values a userDetails field may hold: null, an object of user
\* details, or an object whose customKeywords is a number
JSONValues ==
  { [type |-> "null"] }
  \cup { [type |-> "object", fields |-> f, numberFields |-> {}] : f \in RouteUserDetails }
  \cup { [type |-> "object", fields |-> [brand |-> T_Samsung],
          numberFields |-> {"customKeywords"}] }

\* req.body: no userDetails, an empty text, a text that is no JSON, a text
\* that is JSON, or an object built from fields named userDetails[...]
Bodies ==
  { NoObject,
    [userDetails |-> [type |-> "string", text |-> ""]],
    [userDetails |-> [type |-> "string", text |-> "no json"]] }
  \cup { [userDetails |-> [type |-> "string", text |-> "json", json |-> v]]
           : v \in JSONValues }
  \cup { [userDetails |-> [type |-> "object", fields |-> f]]
           : f \in {[brand |-> T_Samsung], [year |-> T_abc]} }

\* what analyzeProduct resolves with: an analysis with or without the count
\* of tokens, or a failure
AnalysisResults ==
  { [success |-> TRUE, data |-> SampleAnalysis, tokensUsed |-> 3],
    [success |-> TRUE, data |-> SampleAnalysis] }
  \cup
  { analysisHandleError(e) :
      e \in { [isError |-> TRUE, status |-> <<429>>, code |-> "rate_limit_exceeded",
               message |-> "Rate limit exceeded"],
              [isError |-> TRUE, message |-> "ENOENT: no such file or directory"] } }

-----------------------------------------------------------------------------
(* Inputs of insertEmojis *)

\* the longest text and the longest list of emojis
MaxTextLength == 5
MaxEmojis == 3

TextCharacters == {"a", ".", " "}
Emojis == {"sparkles", "star"}

EmojiTexts == ListsUpTo(TextCharacters, MaxTextLength)
EmojiLists == ListsUpTo(Emojis, MaxEmojis)
Strategies == {<<>>, <<"start">>, <<"end">>, <<"distributed">>}

-----------------------------------------------------------------------------
(* The harness: inputs are chosen at the start, one call is made *)

\* the enrichment service is as constructed and was not called
NoEnrichment ==
  /\ productCache = <<>> /\ enriched = NoObject /\ minConfidenceGiven = <<>>
  /\ databaseEntry = NoObject /\ dbMerged = NoObject /\ cachedProducts = <<>> /\ calls = <<>>

\* generatePost was not called
NoGeneration == post = NoObject /\ modelCalls = <<>> /\ postResult = NoObject

\* analyzeMultipleProducts was not called
NoBatch ==
  /\ imagePaths = <<>> /\ tasks = <<>> /\ settledOrder = <<>> /\ batchResults = <<>>

\* nothing was handed to insertEmojis
NoInsertion ==
  /\ emojiText = <<>> /\ emojiList = <<>> /\ emojiStrategy = <<>> /\ emojiResult = <<>>

\* no request was made to POST /analyze
NoRequest ==
  /\ routeRequest = NoObject /\ aiVisionService = FALSE /\ tempFiles = {}
  /\ routeLocals = NoObject /\ routeTrace = <<>> /\ routeResponse = <<>>

\* const merged = mergeProductData(aiAnalysis, userDetails, options)
MergeProductDataCall ==
  /\ pc = "input"
  /\ mergedData' = mergeProductData(aiAnalysis, userDetails, options)
  /\ pc' = "merged"
  /\ UNCHANGED <<aiAnalysis, userDetails, options, details, currentYear, validation, breakdown>>
  /\ UNCHANGED <<enrichmentVars, postVars, batchVars, emojiVars, routeVars>>

\* nothing was handed to validateUserInput
NoValidation == details = NoObject /\ currentYear = 0 /\ validation = NoObject

\* nothing was handed to mergeProductData
NoMerge ==
  /\ aiAnalysis = NoObject /\ userDetails = NoObject /\ options = NoObject
  /\ mergedData = NoObject

InitMerge ==
  /\ pc = "input"
  /\ NoEnrichment /\ NoGeneration /\ NoBatch /\ NoInsertion /\ NoRequest
  /\ mergedData = NoObject
  /\ NoValidation
  /\ breakdown = NoObject
  /\ \/ /\ aiAnalysis \in FieldAnalyses
        /\ userDetails \in FieldUserDetails
        /\ options \in FieldOptionSets
     \/ /\ aiAnalysis \in WideAnalyses
        /\ userDetails = NoObject
        /\ options \in MergeOptionSets
     \/ /\ aiAnalysis \in AttributeAnalyses
        /\ userDetails \in AttributeUserDetails
        /\ options \in PrioritizeOptionSets
     \/ /\ aiAnalysis \in KeywordAnalyses
        /\ userDetails \in KeywordUserDetails
        /\ options \in PrioritizeOptionSets

NextMerge == MergeProductDataCall

SpecMerge == InitMerge /\ [][NextMerge]_vars

\* const validation = validateUserInput(details)
ValidateUserInputCall ==
  /\ pc = "input"
  /\ validation' = validateUserInput(details, currentYear)
  /\ pc' = "validated"
  /\ UNCHANGED <<aiAnalysis, userDetails, options, mergedData, details, currentYear, breakdown>>
  /\ UNCHANGED <<enrichmentVars, postVars, batchVars, emojiVars, routeVars>>

InitValidate ==
  /\ pc = "input"
  /\ NoEnrichment /\ NoGeneration /\ NoBatch /\ NoInsertion /\ NoRequest
  /\ NoMerge
  /\ currentYear \in CurrentYears
  /\ details \in ValidationDetails(currentYear)
  /\ validation = NoObject
  /\ breakdown = NoObject

NextValidate == ValidateUserInputCall

SpecValidate == InitValidate /\ [][NextValidate]_vars

\* nothing was scored
NoBreakdown == breakdown = NoObject

\* const breakdown = getConfidenceBreakdown(analysis)
GetConfidenceBreakdownCall ==
  /\ pc = "input"
  /\ breakdown' = getConfidenceBreakdown(aiAnalysis)
  /\ pc' = "scored"
  /\ UNCHANGED <<aiAnalysis, userDetails, options, mergedData, details, currentYear,
                 validation>>
  /\ UNCHANGED <<enrichmentVars, postVars, batchVars, emojiVars, routeVars>>

InitConfidence ==
  /\ pc = "input"
  /\ NoEnrichment /\ NoGeneration /\ NoBatch /\ NoInsertion /\ NoRequest
  /\ aiAnalysis \in ScoredAnalyses \cup VisualQualityAnalyses
  /\ userDetails = NoObject /\ options = NoObject /\ mergedData = NoObject
  /\ NoValidation
  /\ NoBreakdown

NextConfidence == GetConfidenceBreakdownCall

SpecConfidence == InitConfidence /\ [][NextConfidence]_vars

-----------------------------------------------------------------------------
(* The enrichment service on chosen inputs: an entry may be added to the     *)
(* cache, the analysis is enriched and the result validated, or the analysis *)
(* is merged with the entry                                                  *)

\* service.addProductToCache(entry), once
AddProductToCacheCall ==
  /\ pc = "input"
  /\ databaseEntry # NoObject
  /\ calls = <<>>
  /\ productCache' = addProductToCache(productCache, databaseEntry)
  /\ calls' = Append(calls, "addProductToCache")
  /\ UNCHANGED <<pc, aiAnalysis, userDetails, options, mergedData, details, currentYear,
                 validation, breakdown>>
  /\ UNCHANGED <<enriched, minConfidenceGiven, databaseEntry, dbMerged, cachedProducts>>
  /\ UNCHANGED <<postVars, batchVars, emojiVars, routeVars>>

\* const enriched = await service.enrichProductAnalysis(analysis, options)
EnrichProductAnalysisCall ==
  /\ pc = "input"
  /\ enriched' = enrichProductAnalysis(productCache, aiAnalysis, options)
  /\ calls' = Append(calls, "enrichProductAnalysis")
  /\ pc' = "enriched"
  /\ UNCHANGED <<aiAnalysis, userDetails, options, mergedData, details, currentYear,
                 validation, breakdown>>
  /\ UNCHANGED <<productCache, minConfidenceGiven, databaseEntry, dbMerged,
                 cachedProducts>>
  /\ UNCHANGED <<postVars, batchVars, emojiVars, routeVars>>

\* const validation = service.validateEnrichedProduct(enriched, minConfidence)
ValidateEnrichedProductCall ==
  /\ pc = "enriched"
  /\ validation' = validateEnrichedProduct(enriched, minConfidenceGiven)
  /\ calls' = Append(calls, "validateEnrichedProduct")
  /\ pc' = "checked"
  /\ UNCHANGED <<aiAnalysis, userDetails, options, mergedData, details, currentYear,
                 breakdown>>
  /\ UNCHANGED <<productCache, enriched, minConfidenceGiven, databaseEntry, dbMerged,
                 cachedProducts>>
  /\ UNCHANGED <<postVars, batchVars, emojiVars, routeVars>>

\* const merged = service.mergeWithDatabaseEntry(analysis, dbEntry)
MergeWithDatabaseEntryCall ==
  /\ pc = "input"
  /\ databaseEntry # NoObject
  /\ dbMerged' = mergeWithDatabaseEntry(aiAnalysis, databaseEntry)
  /\ calls' = Append(calls, "mergeWithDatabaseEntry")
  /\ pc' = "dbMerged"
  /\ UNCHANGED <<aiAnalysis, userDetails, options, mergedData, details, currentYear,
                 validation, breakdown>>
  /\ UNCHANGED <<productCache, enriched, minConfidenceGiven, databaseEntry,
                 cachedProducts>>
  /\ UNCHANGED <<postVars, batchVars, emojiVars, routeVars>>

InitEnrichment ==
  /\ pc = "input"
  /\ NoGeneration /\ NoBatch /\ NoInsertion /\ NoRequest
  /\ userDetails = NoObject /\ mergedData = NoObject
  /\ NoValidation
  /\ NoBreakdown
  /\ productCache = <<>> /\ enriched = NoObject /\ dbMerged = NoObject
  /\ cachedProducts = <<>> /\ calls = <<>>
  /\ \/ /\ aiAnalysis \in SentimentAnalyses
        /\ options \in Optional("enableSentimentAnalysis", BOOLEAN)
        /\ minConfidenceGiven = <<>>
        /\ databaseEntry = NoObject
     \/ /\ aiAnalysis \in CompletenessAnalyses \cup PlaceholderAnalyses
        /\ options = NoObject
        /\ minConfidenceGiven = <<>>
        /\ databaseEntry = NoObject
     \/ /\ aiAnalysis \in ValidatedAnalyses
        /\ options = NoObject
        /\ minConfidenceGiven \in MinConfidences
        /\ databaseEntry = NoObject
     \/ /\ aiAnalysis \in DatabaseAnalyses
        /\ options \in { d @@ c : d \in Optional("enableDatabaseLookup", {FALSE}),
                                   c \in Optional("enableCompletenessCheck", {FALSE}) }
        /\ minConfidenceGiven = <<>>
        /\ databaseEntry \in DatabaseEntries

NextEnrichment ==
  \/ AddProductToCacheCall
  \/ EnrichProductAnalysisCall
  \/ ValidateEnrichedProductCall
  \/ MergeWithDatabaseEntryCall

SpecEnrichment == InitEnrichment /\ [][NextEnrichment]_vars

-----------------------------------------------------------------------------
(* The enrichment service as an object: its four public methods are called   *)
(* in any order, on any of the inputs.  enrichProductAnalysis reads the      *)
(* cache before its only await (the lookup is an async function that never   *)
(* waits), so its result is decided when it is called.                       *)

\* service.addProductToCache(entry)
AddProductToCache ==
  /\ Len(calls) < MaxCalls
  /\ \E entry \in CacheEntries :
       /\ productCache' = addProductToCache(productCache, entry)
       /\ databaseEntry' = entry
  /\ calls' = Append(calls, "addProductToCache")
  /\ pc' = "addProductToCache"
  /\ UNCHANGED <<aiAnalysis, userDetails, options, mergedData, details, currentYear,
                 validation, breakdown>>
  /\ UNCHANGED <<enriched, minConfidenceGiven, dbMerged, cachedProducts>>
  /\ UNCHANGED <<postVars, batchVars, emojiVars, routeVars>>

\* service.clearCache()
ClearCache ==
  /\ Len(calls) < MaxCalls
  /\ productCache' = clearCache(productCache)
  /\ calls' = Append(calls, "clearCache")
  /\ pc' = "clearCache"
  /\ UNCHANGED <<aiAnalysis, userDetails, options, mergedData, details, currentYear,
                 validation, breakdown>>
  /\ UNCHANGED <<enriched, minConfidenceGiven, databaseEntry, dbMerged, cachedProducts>>
  /\ UNCHANGED <<postVars, batchVars, emojiVars, routeVars>>

\* const products = service.getCachedProducts()
GetCachedProducts ==
  /\ Len(calls) < MaxCalls
  /\ cachedProducts' = getCachedProducts(productCache)
  /\ calls' = Append(calls, "getCachedProducts")
  /\ pc' = "getCachedProducts"
  /\ UNCHANGED <<aiAnalysis, userDetails, options, mergedData, details, currentYear,
                 validation, breakdown>>
  /\ UNCHANGED <<productCache, enriched, minConfidenceGiven, databaseEntry, dbMerged>>
  /\ UNCHANGED <<postVars, batchVars, emojiVars, routeVars>>

\* const enriched = await service.enrichProductAnalysis(analysis, options)
EnrichProductAnalysis ==
  /\ Len(calls) < MaxCalls
  /\ \E analysis \in LookupAnalyses :
       \E opts \in Optional("enableDatabaseLookup", {FALSE}) :
         /\ enriched' = enrichProductAnalysis(productCache, analysis, opts)
         /\ aiAnalysis' = analysis
         /\ options' = opts
  /\ calls' = Append(calls, "enrichProductAnalysis")
  /\ pc' = "enrichProductAnalysis"
  /\ UNCHANGED <<userDetails, mergedData, details, currentYear, validation, breakdown>>
  /\ UNCHANGED <<productCache, minConfidenceGiven, databaseEntry, dbMerged,
                 cachedProducts>>
  /\ UNCHANGED <<postVars, batchVars, emojiVars, routeVars>>

\* the service as constructed: new Map()
InitCache ==
  /\ pc = "constructed"
  /\ NoMerge /\ NoValidation /\ NoBreakdown
  /\ NoEnrichment /\ NoGeneration /\ NoBatch /\ NoInsertion /\ NoRequest

NextCache ==
  \/ AddProductToCache
  \/ ClearCache
  \/ GetCachedProducts
  \/ EnrichProductAnalysis

SpecCache == InitCache /\ [][NextCache]_vars

-----------------------------------------------------------------------------
(* generatePost, from its call to the resolution of its promise *)

\* the variables generatePost leaves alone
PostFrame ==
  /\ UNCHANGED <<aiAnalysis, userDetails, options, mergedData, details, currentYear,
                 validation, breakdown>>
  /\ UNCHANGED <<enrichmentVars, batchVars, emojiVars, routeVars>>

\* const result = service.generatePost(productAnalysis, options), up to the
\* request for the title
GeneratePostCall ==
  /\ pc = "input"
  /\ post' = StartOfGeneration(options)
  /\ pc' = "title"
  /\ UNCHANGED <<modelCalls, postResult>>
  /\ PostFrame

\* a request of the three is answered, a rejected one being made once more
PrimaryResponds_Retries(request, then) ==
  /\ \E response \in ModelResponses :
       /\ modelCalls' = Append(modelCalls, [request |-> request, response |-> response])
       /\ IF Failed(response)
            THEN IF \E i \in DOMAIN modelCalls : modelCalls[i].request = request
                   THEN /\ postResult' = handleError(response.error)
                        /\ pc' = "resolved"
                        /\ UNCHANGED post
                   ELSE UNCHANGED <<pc, post, postResult>>
            ELSE LET p == [post EXCEPT !.totalTokens = @ + TokensUsed(response)]
                     next == IF then = "variants" THEN AfterSellingPoints(p)
                             ELSE [pc |-> then, post |-> p, postResult |-> NoObject]
                 IN  /\ post' = next.post
                     /\ pc' = next.pc
                     /\ postResult' = next.postResult
  /\ PostFrame

\* a request of the three that generatePost itself awaits is answered: a
\* rejection is caught by generatePost, a completion adds its tokens and the
\* next request is made
PrimaryResponds(request, then) ==
  /\ \E response \in ModelResponses :
       /\ modelCalls' = Append(modelCalls, [request |-> request, response |-> response])
       /\ IF Failed(response)
            THEN /\ postResult' = handleError(response.error)
                 /\ pc' = "resolved"
                 /\ UNCHANGED post
            ELSE LET p == [post EXCEPT !.totalTokens = @ + TokensUsed(response)]
                     next == IF then = "variants" THEN AfterSellingPoints(p)
                             ELSE [pc |-> then, post |-> p, postResult |-> NoObject]
                 IN  /\ post' = next.post
                     /\ pc' = next.pc
                     /\ postResult' = next.postResult
  /\ PostFrame

\* const titleResult = await this.generateTitle(productAnalysis, tone)
TitleResponds ==
  /\ pc = "title"
  /\ PrimaryResponds("title", "description")

\* const descriptionResult = await this.generateDescription(...)
DescriptionResponds ==
  /\ pc = "description"
  /\ PrimaryResponds("description", "sellingPoints")

\* const sellingPointsResult = await this.generateSellingPoints(productAnalysis)
SellingPointsResponds ==
  /\ pc = "sellingPoints"
  /\ PrimaryResponds("sellingPoints", "variants")

\* the request for the title of variant i is answered: a rejection is caught
\* in the loop and the variant is skipped
VariantTitleResponds ==
  /\ pc = "variantTitle"
  /\ \E response \in ModelResponses :
       /\ modelCalls' = Append(modelCalls, [request |-> "variantTitle",
                                            response |-> response])
       /\ LET next ==
                IF Failed(response)
                  THEN LoopFrom(post, post.i + 1)
                  ELSE [ pc |-> "variantDescription",
                         post |-> [post EXCEPT !.variantTokens = @ + TokensUsed(response)],
                         postResult |-> NoObject ]
          IN  /\ post' = next.post
              /\ pc' = next.pc
              /\ postResult' = next.postResult
  /\ PostFrame

\* the request for the description of variant i is answered
VariantDescriptionResponds ==
  /\ pc = "variantDescription"
  /\ \E response \in ModelResponses :
       /\ modelCalls' = Append(modelCalls, [request |-> "variantDescription",
                                            response |-> response])
       /\ LET next ==
                IF Failed(response)
                  THEN LoopFrom(post, post.i + 1)
                  ELSE LoopFrom(
                         [post EXCEPT
                            !.variantTokens = @ + TokensUsed(response),
                            !.variants = Append(@, variantApproaches[post.i + 1].id)],
                         post.i + 1)
          IN  /\ post' = next.post
              /\ pc' = next.pc
              /\ postResult' = next.postResult
  /\ PostFrame

InitPost ==
  /\ pc = "input"
  /\ aiAnalysis = SampleAnalysis
  /\ options \in PostOptionSets
  /\ userDetails = NoObject /\ mergedData = NoObject
  /\ NoValidation /\ NoBreakdown
  /\ NoEnrichment /\ NoGeneration /\ NoBatch /\ NoInsertion /\ NoRequest

NextPost ==
  \/ GeneratePostCall
  \/ TitleResponds
  \/ DescriptionResponds
  \/ SellingPointsResponds
  \/ VariantTitleResponds
  \/ VariantDescriptionResponds

SpecPost == InitPost /\ [][NextPost]_vars

-----------------------------------------------------------------------------
(* analyzeMultipleProducts, from its call to the resolution of its promise: *)
(* one analyzeProduct per path is started by imagePaths.map, each waits for *)
(* its file and then for the vision model, and they settle in any order     *)

BatchFrame ==
  /\ UNCHANGED <<aiAnalysis, userDetails, mergedData, details, currentYear,
                 validation, breakdown>>
  /\ UNCHANGED <<enrichmentVars, postVars, emojiVars, routeVars>>

\* analyzeMultipleProducts is called: every analyzeProduct runs to its first
\* await, fs.readFile in encodeImage, or rejects at once
AnalyzeMultipleProductsCall ==
  /\ pc = "input"
  /\ pc' = "pending"
  /\ LET start == Destructured(options)
     IN  IF Has(start, "thrown")
           THEN /\ tasks' = [i \in DOMAIN imagePaths |->
                               [status |-> "rejected", reason |-> start.thrown]]
                /\ settledOrder' = [i \in DOMAIN imagePaths |-> i]
         ELSE /\ tasks' = [i \in DOMAIN imagePaths |->
                             [status |-> "reading", imagePath |-> imagePaths[i]]]
              /\ settledOrder' = <<>>
  /\ UNCHANGED <<imagePaths, batchResults, options>>
  /\ BatchFrame

\* fs.readFile of one analysis settles: the request to the vision model is
\* sent, or the analysis returns the error of encodeImage
FileRead ==
  /\ pc = "pending"
  /\ \E i \in DOMAIN tasks :
       /\ tasks[i].status = "reading"
       /\ \E file \in ReadOutcomes(tasks[i].imagePath) :
            LET encoded == encodeImage(tasks[i].imagePath, file)
            IN  IF Has(encoded, "thrown")
                  THEN /\ tasks' = [tasks EXCEPT ![i] =
                                      [ status |-> "fulfilled",
                                        value |-> analysisHandleError(encoded.thrown) ]]
                       /\ settledOrder' = Append(settledOrder, i)
                ELSE /\ tasks' = [tasks EXCEPT ![i] =
                                    [status |-> "requesting", imageData |-> encoded.value]]
                     /\ UNCHANGED settledOrder
  /\ UNCHANGED <<pc, imagePaths, batchResults, options>>
  /\ BatchFrame

\* the request of one analysis settles and the analysis returns
ResponseArrives ==
  /\ pc = "pending"
  /\ \E i \in DOMAIN tasks :
       /\ tasks[i].status = "requesting"
       /\ \E response \in VisionResponses(tasks[i].imageData) :
            tasks' = [tasks EXCEPT ![i] =
                        [status |-> "fulfilled", value |-> AfterResponse(response)]]
       /\ settledOrder' = Append(settledOrder, i)
  /\ UNCHANGED <<pc, imagePaths, batchResults, options>>
  /\ BatchFrame

\* every analysis has settled: Promise.allSettled resolves and the results
\* are mapped
ResultsCollected ==
  /\ pc = "pending"
  /\ \A i \in DOMAIN tasks : tasks[i].status \in {"fulfilled", "rejected"}
  /\ pc' = "collected"
  /\ batchResults' = Collected(tasks, settledOrder)
  /\ UNCHANGED <<imagePaths, tasks, settledOrder, options>>
  /\ BatchFrame

InitBatch ==
  /\ pc = "input"
  /\ imagePaths \in PathLists
  /\ options \in AnalysisOptionSets
  /\ tasks = <<>> /\ settledOrder = <<>> /\ batchResults = <<>>
  /\ aiAnalysis = NoObject /\ userDetails = NoObject /\ mergedData = NoObject
  /\ NoValidation /\ NoBreakdown
  /\ NoEnrichment /\ NoGeneration /\ NoInsertion /\ NoRequest

NextBatch ==
  \/ AnalyzeMultipleProductsCall
  \/ FileRead
  \/ ResponseArrives
  \/ ResultsCollected

SpecBatch == InitBatch /\ [][NextBatch]_vars

\* every read of a file and every request to the vision model settles
SpecBatchFair == SpecBatch /\ WF_vars(NextBatch)

-----------------------------------------------------------------------------
(* insertEmojis on chosen inputs *)

\* const result = insertEmojis(text, emojis, strategy)
InsertEmojisCall ==
  /\ pc = "input"
  /\ emojiResult' = <<insertEmojis(emojiText, emojiList, emojiStrategy)>>
  /\ pc' = "inserted"
  /\ UNCHANGED <<emojiText, emojiList, emojiStrategy>>
  /\ UNCHANGED <<aiAnalysis, userDetails, options, mergedData, details, currentYear,
                 validation, breakdown>>
  /\ UNCHANGED <<enrichmentVars, postVars, batchVars, routeVars>>

InitEmojis ==
  /\ pc = "input"
  /\ emojiText \in EmojiTexts
  /\ emojiList \in EmojiLists
  /\ emojiStrategy \in Strategies
  /\ emojiResult = <<>>
  /\ NoMerge /\ NoValidation /\ NoBreakdown
  /\ NoEnrichment /\ NoGeneration /\ NoBatch /\ NoRequest

NextEmojis == InsertEmojisCall

SpecEmojis == InitEmojis /\ [][NextEmojis]_vars

-----------------------------------------------------------------------------
(* POST /analyze, from the arrival of a request to its answer: the upload   *)
(* middleware, then the handler, one step from an await to the next         *)

\* the variables the route leaves alone
RouteFrame ==
  /\ UNCHANGED <<aiAnalysis, userDetails, options, mergedData, details, currentYear,
                 validation, breakdown>>
  /\ UNCHANGED <<enrichmentVars, postVars, batchVars, emojiVars>>
  /\ UNCHANGED <<routeRequest, aiVisionService>>

\* upload.single('image') and its callback (lines 59-96): the file part is
\* refused with an answer, or is stored and handed to the handler as req.file
UploadSingle ==
  /\ pc = "request"
  /\ LET refuse(message) ==
           /\ routeResponse' = <<Answer(400, [success |-> FALSE, error |-> message])>>
           /\ routeTrace' = <<"upload", "answer">>
           /\ pc' = "done"
           /\ UNCHANGED <<tempFiles, routeLocals>>
         part == routeRequest.upload
     IN  IF part = <<>>
           THEN /\ routeLocals' = [req |-> [body |-> routeRequest.body]]
                /\ routeTrace' = <<"upload">>
                /\ pc' = "handler"
                /\ UNCHANGED <<tempFiles, routeResponse>>
         ELSE IF part[1].fieldname # "image" THEN refuse("Unexpected field")
         ELSE IF fileFilter(part[1]) # <<>> THEN refuse(fileFilter(part[1])[1])
         ELSE IF part[1].size > MAX_FILE_SIZE
           THEN refuse("File size exceeds the 10MB limit")
         ELSE LET path == <<"u", "p", "l", "o", "a", "d", "s", "/">> \o filename(part[1])
              IN  /\ tempFiles' = tempFiles \cup {path}
                  /\ routeLocals' =
                       [ req |-> [ file |-> [ mimetype |-> part[1].mimetype,
                                              size |-> part[1].size,
                                              originalname |-> part[1].originalname,
                                              path |-> path ],
                                   body |-> routeRequest.body ] ]
                  /\ routeTrace' = <<"upload">>
                  /\ pc' = "handler"
                  /\ UNCHANGED routeResponse
  /\ RouteFrame

\* the handler runs to its first await, or to its answer
HandlerStarts ==
  /\ pc = "handler"
  /\ LET h == BeforeFirstAwait(routeLocals.req, aiVisionService, currentYear)
     IN  /\ routeTrace' = routeTrace \o h.trace \o
                            <<IF h.await = "none" THEN "answer" ELSE h.await>>
         /\ IF h.await = "none"
              THEN /\ routeResponse' = <<h.answer>>
                   /\ pc' = "done"
                   /\ UNCHANGED routeLocals
            ELSE IF h.await = "cleanupTempFile"
              THEN /\ routeLocals' = [ req |-> routeLocals.req, stage |-> "answer",
                                       answer |-> h.answer ]
                   /\ pc' = "cleanup"
                   /\ UNCHANGED routeResponse
            ELSE /\ routeLocals' = [ req |-> routeLocals.req,
                                     userDetails |-> h.userDetails ]
                 /\ pc' = "analyzing"
                 /\ UNCHANGED routeResponse
  /\ UNCHANGED tempFiles
  /\ RouteFrame

\* const analysisResult = await aiVisionService.analyzeProduct(...), and the
\* call of cleanupTempFile that follows it (lines 167-178)
AnalyzeProductSettles ==
  /\ pc = "analyzing"
  /\ \E analysisResult \in AnalysisResults :
       routeLocals' = [ req |-> routeLocals.req, stage |-> "afterAnalysis",
                        userDetails |-> routeLocals.userDetails,
                        analysisResult |-> analysisResult ]
  /\ routeTrace' = Append(routeTrace, "cleanupTempFile")
  /\ pc' = "cleanup"
  /\ UNCHANGED <<tempFiles, routeResponse>>
  /\ RouteFrame

\* the handler from the settling of a cleanupTempFile on: what the cleanup
\* throws is caught by the outer catch, and rejects the handler when thrown
\* in that catch; otherwise the answer waiting is sent, or the result of the
\* analysis is looked at
AfterCleanup(locals, thrown) ==
  IF thrown # <<>>
    THEN IF locals.stage = "catch"
           THEN [pc |-> "rejected", trace |-> <<"unhandledRejection">>, response |-> <<>>,
                 locals |-> locals]
           ELSE [ pc |-> "cleanup", trace |-> <<"cleanupTempFile">>, response |-> <<>>,
                  locals |-> [answer |-> InternalError(thrown[1])] @@
                               [locals EXCEPT !.stage = "catch"] ]
  ELSE IF locals.stage \in {"answer", "catch"}
    THEN [ pc |-> "done", trace |-> <<"answer">>, response |-> <<locals.answer>>,
           locals |-> locals ]
  ELSE LET a == AfterAnalysis(locals.analysisResult, locals.userDetails)
       IN  IF a.thrown
             THEN [ pc |-> "cleanup", trace |-> a.trace \o <<"cleanupTempFile">>,
                    response |-> <<>>,
                    locals |-> [answer |-> InternalError(a.message)] @@
                                 [locals EXCEPT !.stage = "catch"] ]
             ELSE [ pc |-> "done", trace |-> a.trace \o <<"answer">>,
                    response |-> <<a.answer>>, locals |-> locals ]

\* await storageService.cleanupTempFile(req.file.path) settles
CleanupTempFileSettles ==
  /\ pc = "cleanup"
  /\ \E unlinked \in unlink(tempFiles, routeLocals.req.file.path) :
       LET next == AfterCleanup(routeLocals, cleanupTempFile(unlinked).thrown)
       IN  /\ tempFiles' = unlinked.files
           /\ routeLocals' = next.locals
           /\ routeTrace' = routeTrace \o next.trace
           /\ routeResponse' = next.response
           /\ pc' = next.pc
  /\ RouteFrame

\* a request arrives; the module was loaded with or without an API key
InitRoute ==
  /\ pc = "request"
  /\ NoMerge /\ NoBreakdown
  /\ details = NoObject /\ validation = NoObject
  /\ currentYear \in CurrentYears
  /\ NoEnrichment /\ NoGeneration /\ NoBatch /\ NoInsertion
  /\ routeRequest \in [ upload : {<<>>} \cup {<<f>> : f \in FileParts},
                        body : Bodies ]
  /\ aiVisionService \in BOOLEAN
  /\ tempFiles = {}
  /\ routeLocals = NoObject /\ routeTrace = <<>> /\ routeResponse = <<>>

NextRoute ==
  \/ UploadSingle
  \/ HandlerStarts
  \/ AnalyzeProductSettles
  \/ CleanupTempFileSettles

SpecRoute == InitRoute /\ [][NextRoute]_vars

-----------------------------------------------------------------------------
(* What the claims about mergeProductData speak of *)

\* the call has returned
Merged == pc = "merged"

\* the value of option k the call ran with
OptionIs(k) == IF Has(options, k) THEN options[k] ELSE TRUE

\* the user supplied the text field k (a non-empty text)
SuppliedText(k) == Has(userDetails, k) /\ Len(userDetails[k]) > 0

\* the user supplied a condition
SuppliedCondition == Has(userDetails, "condition") /\ userDetails.condition # ""

\* the user supplied the list k (a non-empty list)
SuppliedList(k) == Has(userDetails, k) /\ userDetails[k] # <<>>

SuppliedAttribute ==
  \/ SuppliedList("color") \/ SuppliedList("material")
  \/ SuppliedText("size") \/ SuppliedText("year") \/ SuppliedText("model")
  \/ Has(userDetails, "categorySpecificDetails")

\* C1: a dataSources entry is 'user' only if prioritizeUser is true and the
\* user supplied the corresponding field.
C1_UserProvenanceNeedsPriority ==
  Merged =>
    LET src == mergedData.dataSources
    IN  /\ DOMAIN src =
             {"productType", "brand", "condition", "attributes", "description", "title"}
        /\ src.productType = "user" => OptionIs("prioritizeUser") /\ SuppliedText("productType")
        /\ src.brand = "user" => OptionIs("prioritizeUser") /\ SuppliedText("brand")
        /\ src.condition = "user" => OptionIs("prioritizeUser") /\ SuppliedCondition
        /\ src.attributes = "user" => OptionIs("prioritizeUser") /\ SuppliedAttribute
        /\ src.description = "user" => OptionIs("prioritizeUser") /\ SuppliedText("description")
        /\ src.title = "user" => OptionIs("prioritizeUser") /\ SuppliedText("customTitle")

\* a merge that gave 'user' to some entries, and one without priority for the user
C1_Witness ==
  /\ Merged
  /\ mergedData.dataSources.productType = "user"
  /\ mergedData.dataSources.title = "user"
  /\ mergedData.dataSources.brand = "ai"

\* C2: with prioritizeUser true, each of productType, brand, condition,
\* description and customTitle the user supplies is the merged value, with
\* provenance 'user' (a brand as {name, HIGH, verified}); each one not supplied
\* keeps the AI value, with provenance 'ai'.
C2_PrioritizedUserFieldsWin ==
  (Merged /\ OptionIs("prioritizeUser")) =>
    LET src == mergedData.dataSources
    IN  /\ IF SuppliedText("productType")
             THEN mergedData.productType = userDetails.productType /\ src.productType = "user"
             ELSE mergedData.productType = aiAnalysis.productType /\ src.productType = "ai"
        /\ IF SuppliedText("brand")
             THEN /\ Has(mergedData, "brand")
                  /\ mergedData.brand =
                       [name |-> userDetails.brand, confidence |-> "high", verified |-> TRUE]
                  /\ src.brand = "user"
             ELSE Get(mergedData, "brand") = Get(aiAnalysis, "brand") /\ src.brand = "ai"
        /\ IF SuppliedCondition
             THEN mergedData.condition = userDetails.condition /\ src.condition = "user"
             ELSE mergedData.condition = aiAnalysis.condition /\ src.condition = "ai"
        /\ IF SuppliedText("description")
             THEN mergedData.description = userDetails.description /\ src.description = "user"
             ELSE mergedData.description = aiAnalysis.description /\ src.description = "ai"
        /\ IF SuppliedText("customTitle")
             THEN mergedData.suggestedTitle = userDetails.customTitle /\ src.title = "user"
             ELSE mergedData.suggestedTitle = aiAnalysis.suggestedTitle /\ src.title = "ai"

\* a default-options merge where the user supplied a brand other than the AI's
\* and a condition, but no product type
C2_Witness ==
  /\ Merged
  /\ options = NoObject
  /\ SuppliedText("brand") /\ Has(aiAnalysis, "brand")
  /\ aiAnalysis.brand.name # userDetails.brand
  /\ SuppliedCondition
  /\ ~SuppliedText("productType")

\* C3: mergeProductData(ai, {}) gives every dataSources entry 'ai' and returns
\* the AI's productType, brand, condition, conditionConfidence, attributes,
\* description and suggestedTitle, under every combination of options.
C3_NoUserDetailsKeepsAi ==
  (Merged /\ userDetails = NoObject) =>
    /\ \A k \in DOMAIN mergedData.dataSources : mergedData.dataSources[k] = "ai"
    /\ Cardinality(DOMAIN mergedData.dataSources) = 6
    /\ mergedData.productType = aiAnalysis.productType
    /\ Get(mergedData, "brand") = Get(aiAnalysis, "brand")
    /\ mergedData.condition = aiAnalysis.condition
    /\ mergedData.conditionConfidence = aiAnalysis.conditionConfidence
    /\ mergedData.attributes = aiAnalysis.attributes
    /\ mergedData.description = aiAnalysis.description
    /\ mergedData.suggestedTitle = aiAnalysis.suggestedTitle

\* a merge with no user details where every option was given, two of them false
C3_Witness ==
  /\ Merged
  /\ userDetails = NoObject
  /\ options = [prioritizeUser |-> FALSE, validateCompleteness |-> FALSE,
                enhanceDescription |-> TRUE]
  /\ Has(aiAnalysis, "brand")
  /\ Has(aiAnalysis.attributes, "customAttributes")

\* the attribute k of the result is the user's if `supplied`, else the AI's
AttributeFrom(k, supplied) ==
  IF supplied
    THEN Get(mergedData.attributes, k) = <<userDetails[k]>>
    ELSE Get(mergedData.attributes, k) = Get(aiAnalysis.attributes, k)

\* the AI's customAttributes, {} when it has none
AiCustomAttributes ==
  IF Has(aiAnalysis.attributes, "customAttributes")
    THEN aiAnalysis.attributes.customAttributes
    ELSE NoObject

\* C4: whatever prioritizeUser is, a supplied color, material, size, year or
\* model overwrites that AI attribute and no other; style, dimensions, weight
\* and the attributes not supplied stay the AI's; customAttributes is the AI map
\* extended with categorySpecificDetails, the user winning a shared key;
\* dataSources.attributes is 'merged' if one of them was supplied, else 'ai'.
C4_AttributeLevelOverwrite ==
  Merged =>
    /\ AttributeFrom("color", SuppliedList("color"))
    /\ AttributeFrom("material", SuppliedList("material"))
    /\ AttributeFrom("size", SuppliedText("size"))
    /\ AttributeFrom("year", SuppliedText("year"))
    /\ AttributeFrom("model", SuppliedText("model"))
    /\ \A k \in {"style", "dimensions", "weight"} : AttributeFrom(k, FALSE)
    /\ IF Has(userDetails, "categorySpecificDetails")
         THEN /\ Has(mergedData.attributes, "customAttributes")
              /\ LET csd == userDetails.categorySpecificDetails
                     custom == mergedData.attributes.customAttributes
                 IN  /\ DOMAIN custom = DOMAIN AiCustomAttributes \cup DOMAIN csd
                     /\ \A k \in DOMAIN custom :
                          custom[k] = IF k \in DOMAIN csd THEN csd[k]
                                                          ELSE AiCustomAttributes[k]
         ELSE AttributeFrom("customAttributes", FALSE)
    /\ DOMAIN mergedData.attributes \subseteq
         {"color", "material", "size", "style", "model", "year", "dimensions",
          "weight", "customAttributes"}
    /\ mergedData.dataSources.attributes = IF SuppliedAttribute THEN "merged" ELSE "ai"

\* without priority for the user, a merge of a supplied color and a supplied
\* detail under a key the AI has too, into an analysis with a size and a style
C4_Witness ==
  /\ Merged
  /\ ~OptionIs("prioritizeUser")
  /\ SuppliedList("color") /\ ~SuppliedText("size")
  /\ Has(aiAnalysis.attributes, "size") /\ Has(aiAnalysis.attributes, "style")
  /\ Has(userDetails, "categorySpecificDetails")
  /\ DOMAIN userDetails.categorySpecificDetails \cap DOMAIN AiCustomAttributes # {}
  /\ mergedData.attributes.customAttributes # AiCustomAttributes

\* the AI keyword list followed by the user's customKeywords
AllKeywords ==
  aiAnalysis.suggestedKeywords
    \o (IF Has(userDetails, "customKeywords") THEN userDetails.customKeywords ELSE <<>>)

\* the place of the first occurrence of x in list
FirstIndex(list, x) == CHOOSE i \in DOMAIN list : list[i] = x /\ \A j \in 1..(i - 1) : list[j] # x

\* C5: suggestedKeywords holds every keyword of the AI list and of the user's
\* customKeywords exactly once, in the order of their first occurrence in the
\* AI list followed by the user's list.
C5_KeywordsDeduplicated ==
  Merged =>
    LET kw == mergedData.suggestedKeywords
    IN  /\ Range(kw) = Range(AllKeywords)
        /\ \A i, j \in DOMAIN kw : i # j => kw[i] # kw[j]
        /\ \A i, j \in DOMAIN kw :
             i < j => FirstIndex(AllKeywords, kw[i]) < FirstIndex(AllKeywords, kw[j])

\* a merge where the AI list repeats a keyword and the user repeats an AI keyword
C5_Witness ==
  /\ Merged
  /\ \E i, j \in DOMAIN aiAnalysis.suggestedKeywords :
       i # j /\ aiAnalysis.suggestedKeywords[i] = aiAnalysis.suggestedKeywords[j]
  /\ Has(userDetails, "customKeywords")
  /\ Range(userDetails.customKeywords) \cap Range(aiAnalysis.suggestedKeywords) # {}
  /\ Range(userDetails.customKeywords) \ Range(aiAnalysis.suggestedKeywords) # {}

\* C6 as claimed: a user-supplied condition forces conditionConfidence to HIGH
\* under every setting of the options.
C6_AnyOptionsForcesHigh ==
  (Merged /\ SuppliedCondition) => mergedData.conditionConfidence = "high"

\* C6 as the code has it: with prioritizeUser true the user's condition is
\* taken with confidence HIGH; with prioritizeUser false the AI's condition
\* and the AI's conditionConfidence are kept.
C6_PrioritizedConditionIsHigh ==
  (Merged /\ SuppliedCondition) =>
    IF OptionIs("prioritizeUser")
      THEN /\ mergedData.condition = userDetails.condition
           /\ mergedData.conditionConfidence = "high"
      ELSE /\ mergedData.condition = aiAnalysis.condition
           /\ mergedData.conditionConfidence = aiAnalysis.conditionConfidence

\* a merge of a supplied condition into a low-confidence AI condition, once
\* with priority for the user and the confidence raised
C6_Witness ==
  /\ Merged
  /\ SuppliedCondition
  /\ OptionIs("prioritizeUser")
  /\ aiAnalysis.conditionConfidence = "low"
  /\ mergedData.conditionConfidence = "high"

\* C7 as claimed: with prioritizeUser false, a supplied productType, brand or
\* condition has provenance 'merged', whatever the AI analysis holds.
C7_SuppliedIsMergedWhateverAi ==
  (Merged /\ ~OptionIs("prioritizeUser")) =>
    /\ SuppliedText("productType") => mergedData.dataSources.productType = "merged"
    /\ SuppliedText("brand") => mergedData.dataSources.brand = "merged"
    /\ SuppliedCondition => mergedData.dataSources.condition = "merged"

\* C7 as the code has it: with prioritizeUser false, a supplied productType or
\* condition has provenance 'merged'; a supplied brand has provenance 'merged'
\* if the AI identified a brand, and otherwise provenance 'ai' with the merged
\* brand left undefined.
C7_SuppliedIsMergedIfAiHasBrand ==
  (Merged /\ ~OptionIs("prioritizeUser")) =>
    /\ SuppliedText("productType") => mergedData.dataSources.productType = "merged"
    /\ SuppliedCondition => mergedData.dataSources.condition = "merged"
    /\ SuppliedText("brand") =>
         IF Has(aiAnalysis, "brand")
           THEN mergedData.dataSources.brand = "merged"
           ELSE mergedData.dataSources.brand = "ai" /\ ~Has(mergedData, "brand")

\* a merge without priority for the user, of a supplied brand and condition
\* into an analysis without a brand
C7_Witness ==
  /\ Merged
  /\ ~OptionIs("prioritizeUser")
  /\ SuppliedText("brand") /\ SuppliedCondition /\ SuppliedText("productType")
  /\ ~Has(aiAnalysis, "brand")

\* the required fields present in the merged data
ProductTypePresent ==
  mergedData.productType # <<>> /\ mergedData.productType # T_UnknownProduct
ConditionPresent == mergedData.condition # "unknown"
CategoryPresent == mergedData.category.primary # T_Unknown

\* the missing fields are exactly the required fields that are not present
MissingFieldsExact ==
  LET mf == mergedData.validationStatus.missingFields
  IN  /\ Range(mf) = (IF ProductTypePresent THEN {} ELSE {"productType"})
                       \cup (IF ConditionPresent THEN {} ELSE {"condition"})
                       \cup (IF CategoryPresent THEN {} ELSE {"category"})
      /\ Len(mf) = Cardinality(Range(mf))

\* C8 as claimed: under any options, isComplete is true exactly when the
\* merged productType, condition and category are present, and missingFields
\* names exactly the ones that are not.
C8_CompleteIffRequiredPresent ==
  Merged =>
    /\ mergedData.validationStatus.isComplete
         = (ProductTypePresent /\ ConditionPresent /\ CategoryPresent)
    /\ MissingFieldsExact

\* C8 as the code has it: that holds when validateCompleteness is true; when
\* it is false, isComplete is false and missingFields and warnings are empty.
C8_CompleteIffRequiredPresentWhenValidated ==
  Merged =>
    IF OptionIs("validateCompleteness")
      THEN /\ mergedData.validationStatus.isComplete
                = (ProductTypePresent /\ ConditionPresent /\ CategoryPresent)
           /\ MissingFieldsExact
      ELSE mergedData.validationStatus =
             [isComplete |-> FALSE, missingFields |-> <<>>, warnings |-> <<>>]

\* a validated merge where the user's product type replaced the AI's
\* placeholder and the result is complete
C8_Witness ==
  /\ Merged
  /\ OptionIs("validateCompleteness")
  /\ aiAnalysis.productType = T_UnknownProduct
  /\ SuppliedText("productType")
  /\ mergedData.validationStatus.isComplete

\* a validated merge that is not complete, all three fields missing
C8_WitnessIncomplete ==
  /\ Merged
  /\ OptionIs("validateCompleteness")
  /\ Len(mergedData.validationStatus.missingFields) = 3

-----------------------------------------------------------------------------
(* What the claims about validateUserInput speak of *)

\* the call has returned
Validated == pc = "validated"

\* the years of the inputs that read as an integer outside [1800, currentYear + 1]
OutOfRangeYears ==
  {T_Y1799, YearText(currentYear + 2), T_Y99999, T_MinusY2021, T_Y1799dot9}

\* the years of the inputs that do not start with an integer
UnparseableYears == {T_abc}

\* the messages of the rules other than the year's that details violates
ViolatedRules ==
  { m \in { "Invalid condition value. Must be one of: new, like_new, excellent, good, fair, poor, for_parts, unknown",
            "Brand name must be 100 characters or less",
            "Model must be 100 characters or less",
            "Product type must be 200 characters or less",
            "Description must be 5000 characters or less",
            "Custom title must be 200 characters or less",
            "Maximum 10 colors allowed",
            "Maximum 10 materials allowed",
            "Maximum 20 custom keywords allowed" } :
      \/ /\ m = "Invalid condition value. Must be one of: new, like_new, excellent, good, fair, poor, for_parts, unknown"
         /\ Has(details, "condition")
         /\ details.condition \notin
              {"", "new", "like_new", "excellent", "good", "fair", "poor", "for_parts", "unknown"}
      \/ m = "Brand name must be 100 characters or less"
           /\ Has(details, "brand") /\ details.brand >= 101
      \/ m = "Model must be 100 characters or less"
           /\ Has(details, "model") /\ details.model >= 101
      \/ m = "Product type must be 200 characters or less"
           /\ Has(details, "productType") /\ details.productType >= 201
      \/ m = "Description must be 5000 characters or less"
           /\ Has(details, "description") /\ details.description >= 5001
      \/ m = "Custom title must be 200 characters or less"
           /\ Has(details, "customTitle") /\ details.customTitle >= 201
      \/ m = "Maximum 10 colors allowed"
           /\ Has(details, "color") /\ Len(details.color) >= 11
      \/ m = "Maximum 10 materials allowed"
           /\ Has(details, "material") /\ Len(details.material) >= 11
      \/ m = "Maximum 20 custom keywords allowed"
           /\ Has(details, "customKeywords") /\ Len(details.customKeywords) >= 21 }

YearError == "Invalid year. Must be between 1800 and " \o ToString(currentYear + 1)

\* the result holds exactly one error for each violated rule, the year's
\* being violated by the years of `rejected`, and valid says there is none
ErrorsAre(rejected) ==
  LET expected ==
        ViolatedRules
          \cup (IF Has(details, "year") /\ details.year \in rejected
                  THEN {YearError} ELSE {})
  IN  /\ DOMAIN validation = {"valid", "errors"}
      /\ Range(validation.errors) = expected
      /\ Len(validation.errors) = Cardinality(expected)
      /\ validation.valid = (validation.errors = <<>>)

C9_WitnessValid ==
  /\ Validated
  /\ Has(details, "year") /\ details.year = YearText(currentYear + 1)
  /\ Has(details, "brand") /\ details.brand = 100
  /\ Has(details, "description") /\ details.description = 5000
  /\ Has(details, "color") /\ Len(details.color) = 10
  /\ validation.valid

-----------------------------------------------------------------------------
(* What the claims about the confidence scorer speak of *)

\* the call has returned
Scored == pc = "scored"

\* C10: each of the seven values of getConfidenceBreakdown (productType,
\* category, brand, condition, attributes, visualQuality, overall) is an
\* integer from 0 to 100.
C10_BreakdownWithin0And100 ==
  Scored =>
    /\ DOMAIN breakdown = {"productType", "category", "brand", "condition",
                           "attributes", "visualQuality", "overall"}
    /\ \A k \in DOMAIN breakdown : breakdown[k] \in 0..100

\* a breakdown whose brand and attributes sums pass 100 before they are clamped
C10_Witness ==
  /\ Scored
  /\ Has(aiAnalysis, "brand") /\ aiAnalysis.brand.verified
  /\ aiAnalysis.brand.confidence = "high"
  /\ SomeTextIncludes(aiAnalysis, aiAnalysis.brand.name)
  /\ aiAnalysis.attributes = FullAttributes
  /\ breakdown.brand = 100
  /\ breakdown.attributes = 100

\* a breakdown whose visual quality sum is below 0 before it is clamped
C10_WitnessLow ==
  /\ Scored
  /\ aiAnalysis.visualQuality =
       [imageQuality |-> "poor", lighting |-> "poor", clarity |-> "blurry",
        background |-> "distracting"]
  /\ breakdown.visualQuality = 0

\* C11: for an analysis whose condition is UNKNOWN the condition score is at
\* most 20, whatever the conditionConfidence label, the visual quality and the
\* defects record are.
C11_UnknownConditionAtMost20 ==
  (Scored /\ aiAnalysis.condition = "unknown") => breakdown.condition <= 20

\* a scored analysis of unknown condition whose label, image quality, clarity
\* and defects description would all have raised the score
C11_Witness ==
  /\ Scored
  /\ aiAnalysis.condition = "unknown"
  /\ aiAnalysis.conditionConfidence = "high"
  /\ aiAnalysis.visualQuality.imageQuality = "excellent"
  /\ aiAnalysis.visualQuality.clarity = "sharp"
  /\ Has(aiAnalysis, "defects")
  /\ breakdown.condition = 20

-----------------------------------------------------------------------------
(* What the claims about the enrichment service speak of *)

\* enrichProductAnalysis has returned
Enriched == pc \in {"enriched", "checked"}

\* the option of the enrichProductAnalysis call, true when it is not given
EnrichmentOptionIs(k) == IF Has(options, k) THEN options[k] ELSE TRUE

\* the per-condition delta of the additive model, in twentieths
ConditionDelta ==
  [c \in ProductCondition |->
     CASE c = "new" -> 20 [] c = "like_new" -> 16 [] c = "excellent" -> 12
       [] c = "good" -> 8 [] c = "fair" -> 4 [] c = "poor" -> 0 - 8
       [] c = "for_parts" -> 0 - 16 [] c = "unknown" -> 0]

\* the six defect flags
DefectFlags == {"scratches", "dents", "stains", "tears", "missingParts", "wear"}

\* the defect flags of the analysis that are true
TrueFlags ==
  IF Has(aiAnalysis, "defects")
    THEN {f \in DefectFlags : Has(aiAnalysis.defects, f) /\ aiAnalysis.defects[f]}
    ELSE {}

\* the severity penalty of the additive model, in twentieths
SeverityDelta ==
  IF Has(aiAnalysis, "defects") /\ Has(aiAnalysis.defects, "severity")
    THEN CASE aiAnalysis.defects.severity = "minor" -> 1
           [] aiAnalysis.defects.severity = "moderate" -> 3
           [] aiAnalysis.defects.severity = "severe" -> 6
           [] OTHER -> 0
    ELSE 0

\* the keywords of the list that the lower-cased description contains
Contained(keywords) ==
  LET lower == toLowerCase(aiAnalysis.description)
  IN  { k \in Range(keywords) :
          \E i \in 1..Len(lower) :
            i + Len(k) - 1 <= Len(lower) /\ SubSeq(lower, i, i + Len(k) - 1) = k }

\* the sum of the additive model for the analysis, in twentieths
AdditiveSum ==
  ConditionDelta[aiAnalysis.condition] - 2 * Cardinality(TrueFlags) - SeverityDelta
    + Cardinality(Contained(positiveKeywords))
    - Cardinality(Contained(negativeKeywords))

\* C12: with sentiment analysis enabled, sentimentScore is the sum of the
\* additive model (condition delta, minus 0.1 per true defect flag, minus the
\* severity penalty, plus 0.05 per positive and minus 0.05 per negative
\* keyword of the lower-cased description, each counted once) clamped to
\* [-1, 1]; with sentiment analysis disabled, sentimentScore is undefined.
C12_SentimentIsClampedSum ==
  Enriched =>
    IF EnrichmentOptionIs("enableSentimentAnalysis")
      THEN /\ Has(enriched.enrichmentData, "sentimentScore")
           /\ enriched.enrichmentData.sentimentScore >= 0 - 20
           /\ enriched.enrichmentData.sentimentScore <= 20
           /\ enriched.enrichmentData.sentimentScore =
                (IF AdditiveSum > 20 THEN 20
                 ELSE IF AdditiveSum < 0 - 20 THEN 0 - 20
                 ELSE AdditiveSum)
      ELSE ~Has(enriched.enrichmentData, "sentimentScore")

\* a NEW product whose description holds five positive keywords: the sum is
\* 1.25 and the score is 1
C12_Witness ==
  /\ Enriched
  /\ EnrichmentOptionIs("enableSentimentAnalysis")
  /\ aiAnalysis.condition = "new"
  /\ aiAnalysis.description = T_Praise
  /\ AdditiveSum = 25
  /\ enriched.enrichmentData.sentimentScore = 20

\* a text is a placeholder: empty, UNKNOWN, 'Unknown' or 'Unknown Product'
Placeholder(text) == text \in {<<>>, T_unknown, T_Unknown, T_UnknownProduct}

\* an optional attribute of the analysis is populated: defined and not empty
Populated(k) == Has(aiAnalysis.attributes, k) /\ Len(aiAnalysis.attributes[k]) > 0

\* the weight a satisfied field adds, in halves
Weight(satisfied, halves) == IF satisfied THEN halves ELSE 0

\* twice the sum `completed` of the analysis
CompletedHalves ==
    Weight(~Placeholder(aiAnalysis.productType), 6)
  + Weight(aiAnalysis.condition # "unknown", 6)
  + Weight(~Placeholder(aiAnalysis.category.primary), 4)
  + Weight(Len(aiAnalysis.description) > 20, 4)
  + Weight(~Placeholder(aiAnalysis.suggestedTitle), 4)
  + Weight(Has(aiAnalysis, "brand") /\ Len(aiAnalysis.brand.name) > 0, 3)
  + Weight(Populated("color"), 2)
  + Weight(Populated("model"), 3)
  + Weight(Populated("size"), 2)
  + Weight(Populated("material"), 2)
  + Weight(aiAnalysis.visualQuality.imageQuality \in {"good", "excellent"}, 2)
  + Weight(Len(aiAnalysis.features) > 0, 2)

\* C13: with the completeness check enabled, completenessScore is
\* round(100 * completed / 20), completed being the sum of the weights of the
\* satisfied critical fields, of the populated optional fields, of a good or
\* excellent image and of a non-empty feature list; it is an integer in
\* [0, 100], 100 for a fully populated analysis and 0 for the empty one.
\* (100 * completed / 20 is 5 * CompletedHalves / 2, rounded half up.)
C13_ScoreIsRoundedShare ==
  (Enriched /\ EnrichmentOptionIs("enableCompletenessCheck")) =>
    /\ enriched.enrichmentData.completenessScore = (5 * CompletedHalves + 1) \div 2
    /\ enriched.enrichmentData.completenessScore \in 0..100
    /\ CompletedHalves = 40 => enriched.enrichmentData.completenessScore = 100
    /\ CompletedHalves = 0 => enriched.enrichmentData.completenessScore = 0

\* completed is 11.5 (the critical fields but the title, and the brand) and
\* the score is 57, not round(57.5)
C13_Witness ==
  /\ Enriched
  /\ EnrichmentOptionIs("enableCompletenessCheck")
  /\ CompletedHalves = 23
  /\ enriched.enrichmentData.completenessScore = 57

\* what holds of the code for C13: the score is within one half of the exact
\* share, and equals its rounding everywhere but at completed = 11.5
C13_ScoreButAtElevenAndAHalf ==
  (Enriched /\ EnrichmentOptionIs("enableCompletenessCheck")) =>
    /\ enriched.enrichmentData.completenessScore \in 0..100
    /\ CompletedHalves # 23 =>
         enriched.enrichmentData.completenessScore = (5 * CompletedHalves + 1) \div 2
    /\ CompletedHalves = 23 => enriched.enrichmentData.completenessScore = 57

\* validateEnrichedProduct has returned
Checked == pc = "checked"

\* the minimum the call was made with: the argument, 50 when it is not given
MinimumAsked == IF minConfidenceGiven = <<>> THEN 50 ELSE minConfidenceGiven[1]

\* C14: validateEnrichedProduct returns valid = true exactly when the overall
\* confidence score is at least minConfidence and the condition is not
\* UNKNOWN; a completeness below 60, a non-empty missingCriticalInfo and a
\* poor image add a warning each and no error; the warnings contain every
\* enrichment recommendation, and no string twice.
C14_ValidIffConfidentAndKnown ==
  Checked =>
    LET data == enriched.enrichmentData
        warnings == validation.warnings
    IN  /\ validation.valid
             <=> (/\ data.confidenceScores.overall >= MinimumAsked
                  /\ enriched.condition # "unknown")
        /\ validation.valid <=> validation.errors = <<>>
        /\ data.completenessScore < 60 =>
             ("Product data is incomplete (" \o ToString(data.completenessScore)
                \o "% complete)") \in Range(warnings)
        /\ data.missingCriticalInfo # <<>> =>
             ("Missing critical information: " \o Join(data.missingCriticalInfo))
               \in Range(warnings)
        /\ enriched.visualQuality.imageQuality = "poor" =>
             "Image quality is poor - may affect analysis accuracy" \in Range(warnings)
        /\ Range(data.recommendations) \subseteq Range(warnings)
        /\ \A i, j \in DOMAIN warnings : warnings[i] = warnings[j] => i = j

\* an UNKNOWN condition with minConfidence 0 is not valid, and a
\* recommendation that was made twice is one warning
C14_Witness ==
  /\ Checked
  /\ enriched.condition = "unknown"
  /\ minConfidenceGiven = <<0>>
  /\ ~validation.valid
  /\ \E i, j \in DOMAIN enriched.enrichmentData.recommendations :
       /\ i # j
       /\ enriched.enrichmentData.recommendations[i]
            = enriched.enrichmentData.recommendations[j]
  /\ enriched.visualQuality.imageQuality = "poor"

\* mergeWithDatabaseEntry has returned
DbMerged == pc = "dbMerged"

\* the ordering LOW < MEDIUM < HIGH
LabelRank == [l \in ConfidenceLevel |-> CASE l = "low" -> 1 [] l = "medium" -> 2 [] l = "high" -> 3]

\* C15: the overallConfidence mergeWithDatabaseEntry returns is never a lower
\* label than the overallConfidence of the analysis, and it is the label of
\* max(calculateOverallConfidence(analysis), 85).
C15_ConfidenceNeverLowered ==
  DbMerged =>
    LET best == IF calculateOverallConfidence(aiAnalysis) > 85
                  THEN calculateOverallConfidence(aiAnalysis) ELSE 85
    IN  /\ LabelRank[dbMerged.overallConfidence] >= LabelRank[aiAnalysis.overallConfidence]
        /\ dbMerged.overallConfidence
             = (IF best >= 75 THEN "high" ELSE IF best >= 50 THEN "medium" ELSE "low")

\* an analysis labelled HIGH whose own score is below 50 stays HIGH, and one
\* labelled LOW with such a score would be raised
C15_Witness ==
  /\ DbMerged
  /\ aiAnalysis.overallConfidence = "high"
  /\ calculateOverallConfidence(aiAnalysis) < 50
  /\ dbMerged.overallConfidence = "high"

-----------------------------------------------------------------------------
(* What the claims about the cache of the enrichment service speak of *)

\* the last call made on the service
LastCall == IF calls = <<>> THEN "" ELSE calls[Len(calls)]

\* clearCache was called and addProductToCache was not called since
ClearedSince ==
  \E i \in DOMAIN calls :
    /\ calls[i] = "clearCache"
    /\ \A j \in (i + 1)..Len(calls) : calls[j] # "addProductToCache"

\* the database lookup is enabled in the last enrichProductAnalysis call
LookupEnabled ==
  IF Has(options, "enableDatabaseLookup") THEN options.enableDatabaseLookup ELSE TRUE

\* C16: after clearCache and until the next addProductToCache,
\* getCachedProducts returns an empty list and enrichProductAnalysis returns
\* no databaseMatch, whatever was added to the cache before.
C16_NothingAfterClear ==
  ClearedSince =>
    /\ LastCall = "getCachedProducts" => cachedProducts = <<>>
    /\ LastCall = "enrichProductAnalysis" => ~Has(enriched.enrichmentData, "databaseMatch")

\* the sample entry is added, the cache is cleared, and the analysis with the
\* entry's brand and model is enriched with the lookup enabled
C16_Witness ==
  /\ calls = <<"addProductToCache", "clearCache", "enrichProductAnalysis">>
  /\ databaseEntry = SampleEntry
  /\ aiAnalysis = LookupAnalysis(T_Apple, T_A2482, <<T_iPhone>>)
  /\ LookupEnabled
  /\ ~Has(enriched.enrichmentData, "databaseMatch")

\* the texts of the extracted-text entries of the analysis
ExtractedTexts == [i \in DOMAIN aiAnalysis.extractedText |-> aiAnalysis.extractedText[i].text]

\* the places of a text where a 12- or 13-digit token starts, with its length
TokenPlaces(text) ==
  {p \in (DOMAIN text) \X {12, 13} : UpcMatchesAt(text, p[1], p[2])}

\* the 12- and 13-digit tokens of the extracted texts
AllTokens ==
  UNION { {SubSeq(ExtractedTexts[i], p[1], p[1] + p[2] - 1) : p \in TokenPlaces(ExtractedTexts[i])}
            : i \in DOMAIN ExtractedTexts }

\* the tokens under which an entry is cached
CachedTokens == {t \in AllTokens : \E i \in DOMAIN productCache : productCache[i].key = t}

\* the key brand.name + ':' + attributes.model of the analysis, if it has a
\* brand and a model, as a sequence of zero or one keys
AnalysisKey ==
  IF Has(aiAnalysis, "brand") /\ Has(aiAnalysis.attributes, "model")
       /\ aiAnalysis.attributes.model # <<>>
    THEN <<aiAnalysis.brand.name \o <<":">> \o aiAnalysis.attributes.model>>
    ELSE <<>>

\* the entry cached under the key, as a sequence of zero or one entries
CachedUnder(key) ==
  IF \E i \in DOMAIN productCache : productCache[i].key = key
    THEN <<productCache[CHOOSE i \in DOMAIN productCache : productCache[i].key = key].value>>
    ELSE <<>>

\* the databaseMatch of the last enrichProductAnalysis call, as a sequence of
\* zero or one entries
MatchReturned == Get(enriched.enrichmentData, "databaseMatch")

\* C17 as it was claimed: with the lookup enabled, if any extracted text
\* contains a 12- or 13-digit token under which an entry is cached, that
\* entry is the databaseMatch; only when no such token is cached the match is
\* the entry added with the brand and model of the analysis, and undefined if
\* neither key is cached.
C17_AnyCachedTokenMatches ==
  (LastCall = "enrichProductAnalysis" /\ LookupEnabled) =>
    IF CachedTokens # {}
      THEN \E t \in CachedTokens : MatchReturned = CachedUnder(t)
      ELSE IF AnalysisKey # <<>> /\ CachedUnder(AnalysisKey[1]) # <<>>
        THEN /\ MatchReturned # <<>>
             /\ MatchReturned[1].brand = aiAnalysis.brand.name
             /\ Get(MatchReturned[1], "model") = <<aiAnalysis.attributes.model>>
        ELSE MatchReturned = <<>>

\* the first token: the leftmost one of the first extracted text that has
\* one, as a sequence of zero or one tokens
FirstToken ==
  LET having == {i \in DOMAIN ExtractedTexts : TokenPlaces(ExtractedTexts[i]) # {}}
  IN  IF having = {} THEN <<>>
      ELSE LET i == CHOOSE k \in having : \A l \in having : k <= l
               p == CHOOSE q \in TokenPlaces(ExtractedTexts[i]) :
                      \A r \in TokenPlaces(ExtractedTexts[i]) : q[1] <= r[1]
           IN  <<SubSeq(ExtractedTexts[i], p[1], p[1] + p[2] - 1)>>

\* C17, amended: with the lookup enabled, only the first 12- or 13-digit
\* token (the leftmost one of the first extracted text that has one) is
\* looked up; if an entry is cached under it, that entry is the
\* databaseMatch; otherwise, also when a later token is cached, the match is
\* the entry cached under the string brand.name + ':' + attributes.model, an
\* entry whose own brand + ':' + model is that string, and undefined if the
\* analysis has no brand or model or nothing is cached under that string.
C17_FirstTokenThenBrandModel ==
  (LastCall = "enrichProductAnalysis" /\ LookupEnabled) =>
    IF FirstToken # <<>> /\ CachedUnder(FirstToken[1]) # <<>>
      THEN /\ MatchReturned = CachedUnder(FirstToken[1])
           /\ \/ Get(MatchReturned[1], "upc") = FirstToken
              \/ Get(MatchReturned[1], "ean") = FirstToken
      ELSE IF AnalysisKey # <<>> /\ CachedUnder(AnalysisKey[1]) # <<>>
        THEN /\ MatchReturned = CachedUnder(AnalysisKey[1])
             /\ MatchReturned[1].brand \o <<":">> \o MatchReturned[1].model
                  = AnalysisKey[1]
        ELSE MatchReturned = <<>>

\* the second token of the text is cached and the first is not: no match
C17_Witness ==
  /\ calls = <<"addProductToCache", "enrichProductAnalysis">>
  /\ databaseEntry = SampleEntry
  /\ aiAnalysis = LookupAnalysis(<<>>, <<>>, <<T_TwoCodes>>)
  /\ LookupEnabled
  /\ FirstToken = <<T_Upc2>>
  /\ T_Upc1 \in CachedTokens
  /\ MatchReturned = <<>>

-----------------------------------------------------------------------------
(* What the claim about the frame of enrichProductAnalysis speaks of *)

\* C18: enrichProductAnalysis returns every field of the analysis unchanged
\* and adds only enrichmentData, also when a databaseMatch is found (the match
\* is reported, not merged); the call leaves the cache as it is; with
\* enableDatabaseLookup = false there is no databaseMatch, and with
\* enableCompletenessCheck = false completenessScore is 100 and
\* missingCriticalInfo is empty.
C18_OnlyEnrichmentDataAdded ==
  /\ [](Enriched =>
          /\ DOMAIN enriched = DOMAIN aiAnalysis \cup {"enrichmentData"}
          /\ \A k \in DOMAIN aiAnalysis : enriched[k] = aiAnalysis[k]
          /\ ~EnrichmentOptionIs("enableDatabaseLookup") =>
               ~Has(enriched.enrichmentData, "databaseMatch")
          /\ ~EnrichmentOptionIs("enableCompletenessCheck") =>
               /\ enriched.enrichmentData.completenessScore = 100
               /\ enriched.enrichmentData.missingCriticalInfo = <<>>)
  /\ [][(pc = "input" /\ pc' = "enriched") => productCache' = productCache]_vars

\* a match is found for an analysis labelled LOW whose productType is not the
\* entry's productName: both stay as they were
C18_Witness ==
  /\ Enriched
  /\ Has(enriched.enrichmentData, "databaseMatch")
  /\ enriched.enrichmentData.databaseMatch.productName # aiAnalysis.productType
  /\ aiAnalysis.overallConfidence = "low"
  /\ enriched.overallConfidence = "low"
  /\ enriched.productType = aiAnalysis.productType
  /\ productCache # <<>>

-----------------------------------------------------------------------------
(* What the claim about generatePost speaks of *)

\* the promise of generatePost has resolved
Resolved == pc = "resolved"

\* the requests among `requests` that were rejected, by their place in the log
Rejections(requests) ==
  {i \in DOMAIN modelCalls :
     modelCalls[i].request \in requests /\ Has(modelCalls[i].response, "error")}

\* the tokens of the completed requests of the log from place i on
RECURSIVE TokensFrom(_)
TokensFrom(i) ==
  IF i > Len(modelCalls) THEN 0
  ELSE (IF Has(modelCalls[i].response, "usage") /\ modelCalls[i].response.usage # <<>>
          THEN modelCalls[i].response.usage[1] ELSE 0)
       + TokensFrom(i + 1)

\* the thrown value has a status that is 429 or at least 500
StatusRetryable(thrown) ==
  /\ Has(thrown, "status")
  /\ thrown.status # <<>>
  /\ (thrown.status[1] = 429 \/ thrown.status[1] >= 500)

AllRequests == {"title", "description", "sellingPoints", "variantTitle", "variantDescription"}

\* C19 as it was claimed: generatePost resolves; if any model call failed, to
\* success = false with an error {code, message, retryable} and no
\* primaryPost, retryable being true exactly when the failure has status 429
\* or a status >= 500; if all calls succeeded, to success = true with a
\* primaryPost, no error, and totalTokensUsed the sum of the tokens of the
\* calls made.
C19_AnyFailureFails ==
  Resolved =>
    IF Rejections(AllRequests) # {}
      THEN /\ ~postResult.success
           /\ Has(postResult, "error")
           /\ DOMAIN postResult.error = {"code", "message", "retryable"}
           /\ ~Has(postResult, "primaryPost")
           /\ \A i \in Rejections(AllRequests) :
                postResult.error.retryable <=> StatusRetryable(modelCalls[i].response.error)
      ELSE /\ postResult.success
           /\ Has(postResult, "primaryPost")
           /\ ~Has(postResult, "error")
           /\ postResult.totalTokensUsed = TokensFrom(1)

\* C19, amended: generatePost resolves.  If one of the three calls of the
\* primary post (title, description, selling points) fails, no further call
\* is made and the result is success = false with an error {code, message,
\* retryable} and no primaryPost; retryable is true exactly when the thrown
\* value has both a status and a code property and its status is 429 or at
\* least 500.  Otherwise the result is success = true with a primaryPost, no
\* error, and totalTokensUsed the sum of the tokens of the calls that
\* completed; a failure of a call for a variant only leaves that variant out.
C19_PrimaryFailureFails ==
  Resolved =>
    IF Rejections({"title", "description", "sellingPoints"}) # {}
      THEN /\ Rejections(AllRequests) = {Len(modelCalls)}
           /\ ~postResult.success
           /\ DOMAIN postResult = {"success", "error"}
           /\ DOMAIN postResult.error = {"code", "message", "retryable"}
           /\ LET thrown == modelCalls[Len(modelCalls)].response.error
              IN  postResult.error.retryable
                    <=> (StatusRetryable(thrown) /\ Has(thrown, "code"))
      ELSE /\ postResult.success
           /\ Has(postResult, "primaryPost")
           /\ ~Has(postResult, "error")
           /\ postResult.totalTokensUsed = TokensFrom(1)
           /\ Has(postResult, "variants") =>
                Len(postResult.variants)
                  = Cardinality({i \in DOMAIN modelCalls :
                                   /\ modelCalls[i].request = "variantDescription"
                                   /\ ~Has(modelCalls[i].response, "error")})

\* the description of a variant was refused with a rate limit after its title
\* had cost tokens: the result is a success without that variant, and the
\* tokens of the title are counted
C19_Witness ==
  /\ Resolved
  /\ postResult.success
  /\ Has(postResult, "variants") /\ postResult.variants = <<>>
  /\ \E i \in Rejections({"variantDescription"}) :
       /\ Has(modelCalls[i].response.error, "status")
       /\ modelCalls[i].response.error.status = <<429>>
       /\ modelCalls[i - 1].request = "variantTitle"
       /\ Has(modelCalls[i - 1].response, "usage")
       /\ modelCalls[i - 1].response.usage = <<3>>
  /\ postResult.totalTokensUsed = TokensFrom(1)
  /\ postResult.totalTokensUsed > 0

-----------------------------------------------------------------------------
(* What the claim about analyzeMultipleProducts speaks of *)

\* the promise of analyzeMultipleProducts has resolved
BatchCollected == pc = "collected"

\* the analysis of path i ended without an analysis of its image
AnalysisFailed(i) ==
  \/ tasks[i].status = "rejected"
  \/ tasks[i].status = "fulfilled" /\ ~tasks[i].value.success

\* a step that settles the analysis of one path touches no other analysis
OnlyOneTaskMoves ==
  \A i \in DOMAIN tasks :
    (i \in DOMAIN tasks' /\ tasks'[i] # tasks[i])
      => \A j \in DOMAIN tasks : j # i => (j \in DOMAIN tasks' /\ tasks'[j] = tasks[j])

\* C20: analyzeMultipleProducts(paths) always resolves, to a list with one
\* result per path; result i is the result of the analysis of paths[i],
\* whatever the order in which the analyses completed; an analysis that
\* failed gives success = false with an error at its own place only, and a
\* step of one analysis leaves the other analyses as they were.
C20_OneResultPerPathInOrder ==
  /\ <>BatchCollected
  /\ [](BatchCollected =>
          /\ Len(batchResults) = Len(imagePaths)
          /\ \A i \in DOMAIN imagePaths :
               /\ tasks[i].status = "fulfilled" => batchResults[i] = tasks[i].value
               /\ AnalysisFailed(i) <=> ~batchResults[i].success
               /\ batchResults[i].success
                    => /\ ~Has(batchResults[i], "error")
                       /\ batchResults[i].data.productType
                            \in {Depicted(imagePaths[i]), T_UnknownProduct}
               /\ ~batchResults[i].success
                    => /\ ~Has(batchResults[i], "data")
                       /\ Has(batchResults[i], "error")
                       /\ {"code", "message", "retryable"}
                            \subseteq DOMAIN batchResults[i].error)
  /\ [][pc = "pending" /\ pc' = "pending" => OnlyOneTaskMoves]_vars

\* the second of two different images failed first and the first was then
\* analysed: the first result is the analysis of the first image, the second
\* result is the failure
C20_Witness ==
  /\ BatchCollected
  /\ Len(imagePaths) = 2
  /\ imagePaths[1] # imagePaths[2]
  /\ settledOrder = <<2, 1>>
  /\ batchResults[1].success
  /\ batchResults[1].data.productType = Depicted(imagePaths[1])
  /\ ~batchResults[2].success
  /\ batchResults[2].error.code = "rate_limit_exceeded"

-----------------------------------------------------------------------------
(* What the claim about the merge without priority speaks of *)

\* both the user and the AI have a brand; both have a title
BothBrands == SuppliedText("brand") /\ Has(aiAnalysis, "brand")
BothTitles == SuppliedText("customTitle") /\ aiAnalysis.suggestedTitle # <<>>

\* C25: with prioritizeUser = false, when both the user value and the AI
\* value are present, the provenance of brand and of title is 'merged' and
\* the value is the user's: brand.name is the user's brand and suggestedTitle
\* is the user's customTitle.
C25_MergedAdoptsUser ==
  (Merged /\ ~OptionIs("prioritizeUser")) =>
    /\ BothBrands => /\ mergedData.dataSources.brand = "merged"
                     /\ mergedData.brand.name = userDetails.brand
    /\ BothTitles => /\ mergedData.dataSources.title = "merged"
                     /\ mergedData.suggestedTitle = userDetails.customTitle

\* what holds of the two fields: the brand is the user's, verified and of
\* high confidence; the title is left as the AI suggested it
C25_BrandAdoptsUserTitleStaysAi ==
  (Merged /\ ~OptionIs("prioritizeUser")) =>
    /\ BothBrands => /\ mergedData.dataSources.brand = "merged"
                     /\ mergedData.brand = UserBrand(userDetails)
    /\ BothTitles => /\ mergedData.dataSources.title = "merged"
                     /\ mergedData.suggestedTitle = aiAnalysis.suggestedTitle

\* a merge without priority of a custom title and a brand into an analysis
\* that has both: the provenance of the title is 'merged' and the title is
\* the AI's, not the user's
C25_Witness ==
  /\ Merged
  /\ ~OptionIs("prioritizeUser")
  /\ BothBrands /\ BothTitles
  /\ userDetails.customTitle # aiAnalysis.suggestedTitle
  /\ mergedData.dataSources.title = "merged"
  /\ mergedData.suggestedTitle = aiAnalysis.suggestedTitle
  /\ mergedData.brand.name = userDetails.brand

-----------------------------------------------------------------------------
(* What the claim about the attributes score speaks of *)

AttributesMessage == "Add missing product attributes (color, size, model, etc.) manually"

\* C29: calculateAttributesConfidence never returns less than 50, so the
\* recommendations never hold the suggestion to add missing attributes,
\* whatever attributes are missing.
C29_AttributesNeverBelow50 ==
  Enriched =>
    /\ calculateAttributesConfidence(aiAnalysis) >= 50
    /\ enriched.enrichmentData.confidenceScores.attributes >= 50
    /\ \A i \in DOMAIN enriched.enrichmentData.recommendations :
         enriched.enrichmentData.recommendations[i] # AttributesMessage

\* an analysis with no attribute and no extracted text at all was enriched:
\* its attributes score is 50 and other suggestions were made
C29_Witness ==
  /\ Enriched
  /\ \A k \in DOMAIN aiAnalysis.attributes : aiAnalysis.attributes[k] = <<>>
  /\ aiAnalysis.extractedText = <<>>
  /\ enriched.enrichmentData.confidenceScores.attributes = 50
  /\ enriched.enrichmentData.recommendations # <<>>

-----------------------------------------------------------------------------
(* What the claim about the frame of mergeWithDatabaseEntry speaks of *)

\* the fields of an analysis that mergeWithDatabaseEntry leaves alone
KeptFields ==
  {"condition", "conditionConfidence", "description", "suggestedTitle",
   "suggestedKeywords", "features"}

\* C30: mergeWithDatabaseEntry with a non-empty dbEntry.category replaces the
\* whole category record by primary = dbEntry.category with confidence HIGH
\* and no secondary or tertiary category; condition, conditionConfidence,
\* description, suggestedTitle, suggestedKeywords, features and every
\* attribute other than model and customAttributes are as in the analysis.
C30_CategoryReplacedRestKept ==
  (DbMerged /\ databaseEntry.category # <<>>) =>
    /\ dbMerged.category = [primary |-> databaseEntry.category, confidence |-> "high"]
    /\ \A k \in KeptFields :
         /\ Has(dbMerged, k) <=> Has(aiAnalysis, k)
         /\ Has(aiAnalysis, k) => dbMerged[k] = aiAnalysis[k]
    /\ \A k \in (DOMAIN aiAnalysis.attributes \cup DOMAIN dbMerged.attributes)
                  \ {"model", "customAttributes"} :
         /\ Has(dbMerged.attributes, k) /\ Has(aiAnalysis.attributes, k)
         /\ dbMerged.attributes[k] = aiAnalysis.attributes[k]

\* an analysis with a secondary and a tertiary category and with attributes
\* was merged with an entry that has a category, a model and attributes
C30_Witness ==
  /\ DbMerged
  /\ databaseEntry.category # <<>>
  /\ Has(aiAnalysis.category, "secondary") /\ Has(aiAnalysis.category, "tertiary")
  /\ aiAnalysis.category.primary # databaseEntry.category
  /\ ~Has(dbMerged.category, "secondary")
  /\ aiAnalysis.attributes = FullAttributes
  /\ TruthyText(databaseEntry, "model")
  /\ dbMerged.attributes.model = databaseEntry.model
  /\ dbMerged.attributes.color = FullAttributes.color

-----------------------------------------------------------------------------
(* What the claims about the keys of the cache speak of *)

\* the keys an entry carries: its upc, its ean and its brand:model
KeysOf(entry) ==
     (IF Has(entry, "upc") /\ entry.upc # <<>> THEN {entry.upc} ELSE {})
  \cup (IF Has(entry, "ean") /\ entry.ean # <<>> THEN {entry.ean} ELSE {})
  \cup (IF entry.brand # <<>> /\ Has(entry, "model") /\ entry.model # <<>>
          THEN {entry.brand \o <<":">> \o entry.model} ELSE {})

\* the keys the cache holds
KeysStored == {productCache[i].key : i \in DOMAIN productCache}

\* the entry the cache will hold under the key after the step
CachedUnderNext(key) ==
  IF \E i \in DOMAIN productCache' : productCache'[i].key = key
    THEN <<productCache'[CHOOSE i \in DOMAIN productCache' : productCache'[i].key = key].value>>
    ELSE <<>>

\* the step is a call of addProductToCache, of the entry databaseEntry'
AddStep == calls' = Append(calls, "addProductToCache")

\* two entries with one UPC and different models
EntryA == SampleEntry
EntryB ==
  [ upc |-> T_Upc1, productName |-> T_iPhonePro, brand |-> T_Apple,
    category |-> T_Phones, model |-> T_iPhonePro ]

\* C27: the cache is last-writer-wins per key, with no eviction and no
\* consistency across keys: an add files the entry under each key it carries
\* and leaves every other key as it was, so a key maps to the entry added
\* last among those that carry it; after adding A and then B with the same
\* UPC and another model, a lookup by the UPC returns B and a lookup by the
\* brand:model of A returns A.
C27_LastWriterWinsPerKey ==
  /\ [](\A i \in DOMAIN productCache :
          productCache[i].key \in KeysOf(productCache[i].value))
  /\ [][AddStep =>
          \A key \in KeysStored \cup KeysOf(databaseEntry') :
            CachedUnderNext(key)
              = IF key \in KeysOf(databaseEntry') THEN <<databaseEntry'>>
                ELSE CachedUnder(key)]_vars
  /\ []((/\ calls = <<"addProductToCache", "addProductToCache", "enrichProductAnalysis">>
         /\ databaseEntry = EntryB
         /\ CachedUnder(BrandModelKey(EntryA.brand, EntryA.model)) = <<EntryA>>
         /\ LookupEnabled)
        => /\ FirstToken = <<T_Upc1>> => MatchReturned = <<EntryB>>
           /\ (FirstToken = <<>>
                 /\ AnalysisKey = <<BrandModelKey(EntryA.brand, EntryA.model)>>)
                => MatchReturned = <<EntryA>>)

\* A was added, then B: the UPC they share is B's and the brand:model of A is
\* still A's, and the lookup of an analysis with A's brand and model finds A
C27_Witness ==
  /\ calls = <<"addProductToCache", "addProductToCache", "enrichProductAnalysis">>
  /\ databaseEntry = EntryB
  /\ CachedUnder(T_Upc1) = <<EntryB>>
  /\ CachedUnder(BrandModelKey(EntryA.brand, EntryA.model)) = <<EntryA>>
  /\ LookupEnabled
  /\ FirstToken = <<>>
  /\ MatchReturned = <<EntryA>>

\* how often the product is in the list
Occurrences(list, product) == Cardinality({i \in DOMAIN list : list[i] = product})

\* C28: in every cache state getCachedProducts returns one element per key
\* stored, not one per product: a product is listed once for each key under
\* which it is stored, an entry added with upc, ean and brand and model is
\* listed three times, and an entry with no upc, no ean and no model is not
\* stored (the add leaves the cache as it is).
C28_OneElementPerKey ==
  /\ [](LastCall = "getCachedProducts" =>
          /\ Len(cachedProducts) = Cardinality(KeysStored)
          /\ \A i \in DOMAIN productCache :
               Occurrences(cachedProducts, productCache[i].value)
                 = Cardinality({key \in KeysStored :
                                  CachedUnder(key) = <<productCache[i].value>>})
          /\ (calls = <<"addProductToCache", "getCachedProducts">>
                /\ Cardinality(KeysOf(databaseEntry)) = 3)
               => cachedProducts = <<databaseEntry, databaseEntry, databaseEntry>>)
  /\ [][(AddStep /\ KeysOf(databaseEntry') = {}) => productCache' = productCache]_vars

\* the sample entry, then an entry without upc, ean and model were added: the
\* list holds the sample entry three times and nothing else
C28_Witness ==
  /\ calls = <<"addProductToCache", "addProductToCache", "getCachedProducts">>
  /\ KeysOf(databaseEntry) = {}
  /\ cachedProducts = <<SampleEntry, SampleEntry, SampleEntry>>

-----------------------------------------------------------------------------
(* What the claims about the requests of generatePost speak of *)

\* generatePost has returned the variants of generateABTestingVariants and
\* no request was rejected
VariantsGenerated ==
  /\ Resolved
  /\ postResult.success
  /\ Has(postResult, "variants")
  /\ Rejections(AllRequests) = {}

\* the style of the approach with the given variantId
StyleOfVariant(id) ==
  variantApproaches[CHOOSE k \in DOMAIN variantApproaches : variantApproaches[k].id = id].style

\* the ids are pairwise different and none is of the primary post's style
DistinctAndOfOtherStyle(ids) ==
  /\ \A i, j \in DOMAIN ids : i # j => ids[i] # ids[j]
  /\ \A i \in DOMAIN ids : StyleOfVariant(ids[i]) # postResult.primaryPost.style

\* C24: when every model call succeeds and 1 <= variantCount <= 4,
\* generateABTestingVariants returns exactly variantCount variants, for every
\* style of the primary post, each with a distinct variantId and none using
\* the description style of the primary post.
C24_ExactlyVariantCount ==
  (VariantsGenerated /\ post.variantCount \in 1..4) =>
    /\ Len(postResult.variants) = post.variantCount
    /\ DistinctAndOfOtherStyle(postResult.variants)

\* what holds instead: the loop visits the first variantCount approaches and
\* skips the one of the primary post's style, so one variant fewer is
\* returned when that style is among them
C24_OneFewerWhenStyleAmongFirst ==
  (VariantsGenerated /\ post.variantCount \in 1..4) =>
    /\ Len(postResult.variants)
         = post.variantCount
             - (IF \E k \in 1..post.variantCount :
                     variantApproaches[k].style = post.style THEN 1 ELSE 0)
    /\ DistinctAndOfOtherStyle(postResult.variants)

\* a benefit-focused primary post with two variants asked for and every
\* request answered: one variant, the story-based one
C24_Witness ==
  /\ VariantsGenerated
  /\ post.style = "benefit_focused"
  /\ post.variantCount = 2
  /\ postResult.variants = <<"variant-story-based">>

\* the requests answered so far, in the order of their answers
RequestsAnswered == [i \in DOMAIN modelCalls |-> modelCalls[i].request]

PrimaryRequests == <<"title", "description", "sellingPoints">>

\* C26: in a generatePost invocation without variants the model is called at
\* most three times, in the order title, description, selling points, each
\* request made only when the one before has been answered; a request that
\* failed is not made again and no request is made after a failure.
C26_ThreeCallsInOrder ==
  (pc # "input" /\ ~post.generateVariants) =>
    /\ Len(modelCalls) <= 3
    /\ RequestsAnswered = SubSeq(PrimaryRequests, 1, Len(modelCalls))
    /\ pc \in {"title", "description", "sellingPoints", "resolved"}
    /\ pc # "resolved" => /\ Len(modelCalls) < 3
                          /\ pc = PrimaryRequests[Len(modelCalls) + 1]
                          /\ Rejections(AllRequests) = {}
    /\ pc = "resolved" => (Len(modelCalls) = 3 \/ Rejections(AllRequests) # {})
    /\ Rejections(AllRequests) \subseteq {Len(modelCalls)}

\* the title was answered, the description was refused with a rate limit, and
\* generatePost returned without asking for the selling points
C26_Witness ==
  /\ Resolved
  /\ ~post.generateVariants
  /\ RequestsAnswered = <<"title", "description">>
  /\ Rejections(AllRequests) = {2}
  /\ ~postResult.success
  /\ postResult.error.retryable

-----------------------------------------------------------------------------
(* What the claim about insertEmojis speaks of *)

\* insertEmojis has returned from the 'distributed' case with emojis to place
Distributed ==
  /\ pc = "inserted"
  /\ emojiList # <<>>
  /\ emojiStrategy \in {<<>>, <<"distributed">>}

\* the emojis of a text, in their order
EmojisOf(text) == SelectSeq(text, LAMBDA c : c \in Emojis)

\* the text without its emojis and without the blank put in front of each
RECURSIVE WithoutEmojis(_)
WithoutEmojis(text) ==
  IF text = <<>> THEN <<>>
  ELSE IF Len(text) >= 2 /\ text[1] = " " /\ text[2] \in Emojis
    THEN WithoutEmojis(SubSeq(text, 3, Len(text)))
  ELSE IF text[1] \in Emojis THEN WithoutEmojis(Tail(text))
  ELSE <<text[1]>> \o WithoutEmojis(Tail(text))

\* C23: for every text and every non-empty emoji list,
\* insertEmojis(text, emojis, 'distributed') returns a string that contains
\* every supplied emoji, in the order given, the original text being
\* otherwise unchanged.
C23_EveryEmojiInOrder ==
  Distributed =>
    /\ EmojisOf(emojiResult[1]) = emojiList
    /\ WithoutEmojis(emojiResult[1]) = emojiText

\* the segments of the split and the interval between two emojis
Segments == Len(SplitSentences(emojiText, 1, 1))
Interval == Segments \div Len(emojiList)

\* what holds instead: an emoji is placed after each segment whose index
\* (from 0) is a positive multiple of floor(segments / emojis), so the first
\* emojis of the list are placed, as many as there are such segments, and
\* none when the interval is 0; the text is otherwise unchanged but for the
\* white space at its ends
C23_OneEmojiPerMultiple ==
  Distributed =>
    LET places == IF Interval = 0 THEN {}
                  ELSE {k \in 1..(Segments - 1) : k % Interval = 0}
        placed == IF Cardinality(places) < Len(emojiList)
                    THEN Cardinality(places) ELSE Len(emojiList)
    IN  /\ EmojisOf(emojiResult[1]) = SubSeq(emojiList, 1, placed)
        /\ trim(WithoutEmojis(emojiResult[1])) = trim(emojiText)

\* one emoji for a text of one sentence: the text is returned as it is
C23_Witness ==
  /\ Distributed
  /\ emojiText = <<"a", "a", "a">>
  /\ emojiList = <<"sparkles">>
  /\ emojiResult = <<emojiText>>

-----------------------------------------------------------------------------
(* What the claims about POST /analyze speak of *)

\* the handler was entered, with the request the middleware handed on
HandlerEntered == pc \notin {"request"} /\ Has(routeLocals, "req")

\* the request reached the handler with an uploaded file
WithFile == HandlerEntered /\ Has(routeLocals.req, "file")

\* the calls logged so far
Called(name) == \E i \in DOMAIN routeTrace : routeTrace[i] = name

\* wherever the second was called or sent, the first was called before it
Precedes(first, second) ==
  \A j \in DOMAIN routeTrace :
    routeTrace[j] = second => \E i \in 1..(j - 1) : routeTrace[i] = first

\* the uploaded file passes validateFile
FilePasses == validateFile(routeLocals.req.file).valid

\* the user details supplied, if any, parse as JSON and pass validateUserInput
UserDetailsPass ==
  LET body == routeLocals.req.body
      given == body.userDetails
      passes(fields) == validateUserInput(ValidationView(fields), currentYear).valid
  IN  \/ ~Has(body, "userDetails")
      \/ given.type = "string" /\ given.text = ""
      \/ given.type = "object" /\ passes(given.fields)
      \/ /\ given.type = "string" /\ given.text = "json"
         /\ given.json.type = "object"
         /\ passes(given.json.fields)

\* the request is answered with this status
Answered(status) == routeResponse # <<>> /\ routeResponse[1].status = status

\* C21: in POST /analyze the vision model is called only after the uploaded
\* file has passed validateFile and any supplied userDetails have parsed as
\* JSON and passed validateUserInput; a request failing either check is
\* answered 400 with no vision call, also when the AI service is not
\* configured (503 is given only to requests that passed both checks), and
\* mergeProductData runs only after a successful analysis.
C21_VisionOnlyAfterBothChecks ==
  /\ Called("analyzeProduct") =>
       /\ WithFile /\ FilePasses /\ UserDetailsPass
       /\ Precedes("validateFile", "analyzeProduct")
       /\ UserDetailsGiven(routeLocals.req.body) =>
            Precedes("validateUserInput", "analyzeProduct")
  /\ (WithFile /\ pc = "done" /\ ~(FilePasses /\ UserDetailsPass)) =>
       Answered(400) /\ ~Called("analyzeProduct") /\ ~Called("mergeProductData")
  /\ Answered(503) => WithFile /\ FilePasses /\ UserDetailsPass /\ ~aiVisionService
  /\ Called("mergeProductData") =>
       /\ Precedes("analyzeProduct", "mergeProductData")
       /\ routeLocals.analysisResult.success
       /\ Has(routeLocals.analysisResult, "data")

\* a good file with user details that validateUserInput refuses, sent to a
\* server without AI service: answered 400, the vision model not called
C21_Witness ==
  /\ pc = "done"
  /\ ~aiVisionService
  /\ WithFile /\ FilePasses /\ ~UserDetailsPass
  /\ Answered(400)
  /\ routeResponse[1].body.error = "Invalid user details"
  /\ ~Called("analyzeProduct")

\* the number of calls of this name logged so far
TimesCalled(name) == Cardinality({i \in DOMAIN routeTrace : routeTrace[i] = name})

\* C22: for every POST /analyze request that reaches the handler with an
\* uploaded file, cleanupTempFile is called on that file's path at least once
\* before the answer is sent, on every outcome (400, 503, 500, 200), and
\* cleanupTempFile never throws, also when the file is already gone.
C22_CleanupBeforeEveryAnswer ==
  /\ WithFile => Precedes("cleanupTempFile", "answer")
  /\ (WithFile /\ pc = "done") =>
       /\ routeResponse # <<>>
       /\ routeResponse[1].status \in {200, 400, 500, 503}
       /\ TimesCalled("cleanupTempFile") >= 1
  /\ pc # "rejected"
  /\ ~Called("unhandledRejection")

\* mergeProductData threw after the file was removed: the outer catch called
\* cleanupTempFile on the file that was gone and answered 500
C22_Witness ==
  /\ pc = "done"
  /\ WithFile
  /\ Answered(500)
  /\ routeResponse[1].body.error = "Internal server error during analysis"
  /\ TimesCalled("cleanupTempFile") = 2
  /\ tempFiles = {}

====
